---- MODULE Spec2Model ----
(***************************************************************************)
(* Household ledger (src/app.py): the worksheet store adapter, the         *)
(* recurrence materializer and the handlers that drive them.               *)
(*                                                                         *)
(* Text is a sequence of one-character strings, so that strip, sanitize,   *)
(* concatenation, number formatting and parsing are computed, not assumed. *)
(* Column names (the header line of a worksheet) are plain strings.        *)
(***************************************************************************)
EXTENDS Integers, Sequences, FiniteSets, TLC

(***************************************************************************)
(* Text helpers                                                            *)
(***************************************************************************)
DigitChars == <<"0", "1", "2", "3", "4", "5", "6", "7", "8", "9">>

IsDigit(c) == \E i \in 1..10 : DigitChars[i] = c

DigitVal(c) == (CHOOSE i \in 1..10 : DigitChars[i] = c) - 1

\* \s of Python's re module, for the characters the model uses
IsSpace(c) == c \in {" ", "\t"}

\* the letters the model's texts use
Letters == {"a", "b", "c", "f", "m", "u", "N", "R", "e", "n", "t"}

\* [0-9A-Za-z가-힣_\-] of safe_key_part, for the characters the model uses
IsKeyChar(c) == c \in Letters \/ c \in {"_", "-"} \/ IsDigit(c)

RECURSIVE LStrip(_)
LStrip(s) == IF s # <<>> /\ IsSpace(Head(s)) THEN LStrip(Tail(s)) ELSE s

RECURSIVE RStrip(_)
RStrip(s) == IF s # <<>> /\ IsSpace(s[Len(s)]) THEN RStrip(SubSeq(s, 1, Len(s) - 1)) ELSE s

\* str.strip()
Strip(s) == RStrip(LStrip(s))

\* decimal digits of a natural number
RECURSIVE NatToText(_)
NatToText(n) == IF n < 10 THEN <<DigitChars[n + 1]>>
                ELSE NatToText(n \div 10) \o <<DigitChars[(n % 10) + 1]>>

\* str(int)
IntToText(n) == IF n < 0 THEN <<"-">> \o NatToText(0 - n) ELSE NatToText(n)

\* f"{n:02d}" for n >= 0
Pad2(n) == IF n < 10 THEN <<"0">> \o NatToText(n) ELSE NatToText(n)

\* f"{n:04d}" for n >= 0
Pad4(n) == IF n < 10 THEN <<"0", "0", "0">> \o NatToText(n)
           ELSE IF n < 100 THEN <<"0", "0">> \o NatToText(n)
           ELSE IF n < 1000 THEN <<"0">> \o NatToText(n)
           ELSE NatToText(n)

IsDigits(s) == s # <<>> /\ \A i \in 1..Len(s) : IsDigit(s[i])

RECURSIVE DigitsToNat(_)
DigitsToNat(s) == IF s = <<>> THEN 0
                  ELSE DigitsToNat(SubSeq(s, 1, Len(s) - 1)) * 10 + DigitVal(s[Len(s)])

\* t occurs in s as a contiguous substring
Contains(s, t) == \E i \in 0..(Len(s) - Len(t)) : SubSeq(s, i + 1, i + Len(t)) = t

(***************************************************************************)
(* Scalars of a data frame cell: a number, a text, or NaN                  *)
(***************************************************************************)
Num(n) == [t |-> "num", n |-> n, s |-> <<>>]
Str(s) == [t |-> "str", n |-> 0, s |-> s]
NaN == [t |-> "nan", n |-> 0, s |-> <<>>]

\* None where a text is expected: no text is this value, a text being a sequence
\* of single characters
None == <<"None">>

\* pd.to_numeric(x, errors="coerce") on a scalar: an integer text (surrounding
\* blanks allowed, optional sign) parses, anything else is NaN
ToNumeric(x) ==
    IF x.t = "num" THEN x
    ELSE IF x.t = "nan" THEN NaN
    ELSE LET s == Strip(x.s) IN
         IF IsDigits(s) THEN Num(DigitsToNat(s))
         ELSE IF s # <<>> /\ Head(s) = "-" /\ IsDigits(Tail(s)) THEN Num(0 - DigitsToNat(Tail(s)))
         ELSE NaN

\* bool(x) of a to_numeric result: 0 is falsy, NaN and every other number truthy
Truthy(x) == x.t = "nan" \/ (x.t = "num" /\ x.n # 0)

\* int(pd.to_numeric(x, errors="coerce") or dflt): `NaN or dflt` is NaN (NaN is
\* truthy) and int(NaN) raises ValueError
IntCoerce(x, dflt) ==
    LET v == ToNumeric(x)
        w == IF Truthy(v) THEN v ELSE Num(dflt)
    IN  [raised |-> w.t = "nan", v |-> w.n]

(***************************************************************************)
(* Dates                                                                   *)
(***************************************************************************)
IsLeap(y) == (y % 4 = 0 /\ y % 100 # 0) \/ y % 400 = 0

\* calendar.monthrange(year, month)[1]
DaysInMonth(y, m) ==
    IF m = 2 THEN (IF IsLeap(y) THEN 29 ELSE 28)
    ELSE IF m \in {4, 6, 9, 11} THEN 30 ELSE 31

\* month_range(year, month)[2]
month_range_last_day(year, month) == DaysInMonth(year, month)

\* pd.Timestamp(date(y, m, d)); NaT is the missing timestamp
Timestamp(y, m, d) == [y |-> y, m |-> m, d |-> d]
NaT == [y |-> 0, m |-> 0, d |-> 0]

\* str(Timestamp) of a midnight timestamp: "YYYY-MM-DD"
DateToText(ts) == Pad4(ts.y) \o <<"-">> \o Pad2(ts.m) \o <<"-">> \o Pad2(ts.d)

(***************************************************************************)
(* Schemas and literals                                                    *)
(***************************************************************************)
LEDGER_COLS == <<"id", "date", "type", "category", "amount", "memo", "fixed_key", "user">>
FIXED_COLS == <<"fixed_id", "name", "amount", "day", "memo">>
CARD_SUBS_COLS == <<"card_name", "merchant", "amount", "day", "memo">>
CARDS_COLS == <<"card_name", "benefits">>
SIMPLE_COLS == <<"id", "date", "type", "amount", "memo", "user">>

\* the literals of the source, abbreviated: "지출", "수입", "9. 고정지출",
\* "1. 식재료", "[고정지출]", "[정기결제]"
Expense == <<"E">>
Income == <<"I">>
FIXED_CATEGORY == <<"9">>
FoodCategory == <<"1">>
FixedTag == <<"[", "F", "]">>
SubsTag == <<"[", "S", "]">>
Me == <<"m", "e">>
Other == <<"y", "u">>

\* str(uuid.uuid4()): the k-th identifier drawn; distinct draws are distinct
uuid4(k) == <<"u">> \o NatToText(k)

(***************************************************************************)
(* Recurrence materializer                                                 *)
(***************************************************************************)
\* re.sub(r"\s+", "_", s)
RECURSIVE CollapseSpaces(_)
CollapseSpaces(s) ==
    IF s = <<>> THEN <<>>
    ELSE IF IsSpace(Head(s)) THEN <<"_">> \o CollapseSpaces(LStrip(s))
    ELSE <<Head(s)>> \o CollapseSpaces(Tail(s))

\* re.sub(r"[^0-9A-Za-z가-힣_\-]", "", s)
RECURSIVE DropNonKeyChars(_)
DropNonKeyChars(s) ==
    IF s = <<>> THEN <<>>
    ELSE IF IsKeyChar(Head(s)) THEN <<Head(s)>> \o DropNonKeyChars(Tail(s))
    ELSE DropNonKeyChars(Tail(s))

KeyPartMax == 60

safe_key_part(s) ==
    LET t == DropNonKeyChars(CollapseSpaces(Strip(s)))
    IN  IF Len(t) > KeyPartMax THEN SubSeq(t, 1, KeyPartMax) ELSE t

\* f"{year}{month:02d}"
yyyymm(year, month) == IntToText(year) \o Pad2(month)

\* a key that leaves the month out
FixedKey_NoMonth(fixed_id, year, month) == <<"F", "I", "X", "_">> \o fixed_id

\* f"FIX_{fixed_id}_{yyyymm}"
FixedKey(fixed_id, year, month) ==
    <<"F", "I", "X", "_">> \o fixed_id \o <<"_">> \o yyyymm(year, month)

\* a key built from the unsanitized card and merchant
SubsKey_Raw(card, merchant, year, month) ==
    <<"S", "U", "B", "_">> \o card \o <<"_">> \o merchant \o <<"_">> \o yyyymm(year, month)

\* f"SUB_{safe_key_part(card)}_{safe_key_part(merchant)}_{yyyymm}"
SubsKey(card, merchant, year, month) ==
    <<"S", "U", "B", "_">> \o safe_key_part(card) \o <<"_">> \o safe_key_part(merchant)
        \o <<"_">> \o yyyymm(year, month)

\* a key set that misses the keys of the ledger
ExistingKeys_Empty(df) == {}

\* set(out["fixed_key"].fillna("").astype(str).tolist())
ExistingKeys(df) == {df[i].fixed_key : i \in 1..Len(df)}

\* a clamp without the upper limit
ClampDay_NoUpper(day, last_day) == IF day > 1 THEN day ELSE 1

\* day = max(1, min(day, last_day))
ClampDay(day, last_day) ==
    LET lo == IF day < last_day THEN day ELSE last_day
    IN  IF lo > 1 THEN lo ELSE 1

\* the memo of a materialized fixed expense: f"[고정지출] {full_memo}".strip()
FixedMemo(name, memo) ==
    LET full_memo == IF memo # <<>>
                     THEN (IF name # <<>> THEN name \o <<" ", "(">> \o memo \o <<")">> ELSE memo)
                     ELSE name
    IN  Strip(FixedTag \o <<" ">> \o full_memo)

\* the memo of a materialized subscription
SubsMemo(card, merchant, memo) ==
    LET base == IF card # <<>> THEN merchant \o <<" ", "-", " ">> \o card ELSE merchant
        full_memo == SubsTag \o <<" ">> \o base
    IN  IF memo # <<>> THEN full_memo \o <<" ", "(">> \o memo \o <<")">> ELSE full_memo

\* one pass of the loop body of apply_fixed_to_ledger_for_month over rule fx:
\* "skip" (continue), "raise" (int(NaN)) or "row" (append to add_rows)
FixedStep(fx, existing_keys, year, month, user, uid) ==
    LET fixed_id == Strip(fx.fixed_id)
        key == FixedKey(fixed_id, year, month)
        amount == IntCoerce(fx.amount, 0)
        day == IntCoerce(fx.day, 1)
        last_day == month_range_last_day(year, month)
    IN  IF fixed_id = <<>> THEN [kind |-> "skip"]
        ELSE IF key \in existing_keys THEN [kind |-> "skip"]
        ELSE IF amount.raised \/ day.raised THEN [kind |-> "raise"]
        ELSE [kind |-> "row",
              row |-> [id |-> uuid4(uid),
                       date |-> Timestamp(year, month, ClampDay(day.v, last_day)),
                       type |-> Expense,
                       category |-> FIXED_CATEGORY,
                       amount |-> amount.v,
                       memo |-> FixedMemo(Strip(fx.name), Strip(fx.memo)),
                       fixed_key |-> key,
                       user |-> user]]

\* the for loop of apply_fixed_to_ledger_for_month from rule i on; existing_keys
\* is computed once before the loop and not extended by it
RECURSIVE FixedLoop(_, _, _, _, _, _, _, _)
FixedLoop(fixed_df, i, existing_keys, year, month, user, uid, add_rows) ==
    IF i > Len(fixed_df) THEN [raised |-> FALSE, add_rows |-> add_rows]
    ELSE LET st == FixedStep(fixed_df[i], existing_keys, year, month, user, uid + Len(add_rows))
         IN  IF st.kind = "raise" THEN [raised |-> TRUE, add_rows |-> <<>>]
             ELSE IF st.kind = "skip"
                  THEN FixedLoop(fixed_df, i + 1, existing_keys, year, month, user, uid, add_rows)
                  ELSE FixedLoop(fixed_df, i + 1, existing_keys, year, month, user, uid,
                                 Append(add_rows, st.row))

\* apply_fixed_to_ledger_for_month(ledger_df, fixed_df, year, month): the returned
\* frame and count, or raised when the call ends in an exception
apply_fixed_to_ledger_for_month(ledger_df, fixed_df, year, month, user, uid) ==
    IF Len(fixed_df) = 0 THEN [raised |-> FALSE, out |-> ledger_df, added |-> 0]
    ELSE LET r == FixedLoop(fixed_df, 1, ExistingKeys(ledger_df), year, month, user, uid, <<>>)
         IN  IF r.raised THEN [raised |-> TRUE, out |-> ledger_df, added |-> 0]
             ELSE [raised |-> FALSE, out |-> ledger_df \o r.add_rows, added |-> Len(r.add_rows)]

\* one pass of the loop body of apply_subs_to_ledger_for_month over rule sb: amount
\* and day are converted before any check
SubsStep(sb, existing_keys, year, month, user, uid) ==
    LET card == Strip(sb.card_name)
        merchant == Strip(sb.merchant)
        amount == IntCoerce(sb.amount, 0)
        day == IntCoerce(sb.day, 1)
        last_day == month_range_last_day(year, month)
        key == SubsKey(card, merchant, year, month)
    IN  IF amount.raised \/ day.raised THEN [kind |-> "raise"]
        ELSE IF merchant = <<>> THEN [kind |-> "skip"]
        ELSE IF amount.v = 0 THEN [kind |-> "skip"]
        ELSE IF key \in existing_keys THEN [kind |-> "skip"]
        ELSE [kind |-> "row",
              row |-> [id |-> uuid4(uid),
                       date |-> Timestamp(year, month, ClampDay(day.v, last_day)),
                       type |-> Expense,
                       category |-> FIXED_CATEGORY,
                       amount |-> amount.v,
                       memo |-> SubsMemo(card, merchant, Strip(sb.memo)),
                       fixed_key |-> key,
                       user |-> user]]

RECURSIVE SubsLoop(_, _, _, _, _, _, _, _)
SubsLoop(subs_df, i, existing_keys, year, month, user, uid, add_rows) ==
    IF i > Len(subs_df) THEN [raised |-> FALSE, add_rows |-> add_rows]
    ELSE LET st == SubsStep(subs_df[i], existing_keys, year, month, user, uid + Len(add_rows))
         IN  IF st.kind = "raise" THEN [raised |-> TRUE, add_rows |-> <<>>]
             ELSE IF st.kind = "skip"
                  THEN SubsLoop(subs_df, i + 1, existing_keys, year, month, user, uid, add_rows)
                  ELSE SubsLoop(subs_df, i + 1, existing_keys, year, month, user, uid,
                                Append(add_rows, st.row))

\* apply_subs_to_ledger_for_month(ledger_df, subs_df, year, month)
apply_subs_to_ledger_for_month(ledger_df, subs_df, year, month, user, uid) ==
    IF Len(subs_df) = 0 THEN [raised |-> FALSE, out |-> ledger_df, added |-> 0]
    ELSE LET r == SubsLoop(subs_df, 1, ExistingKeys(ledger_df), year, month, user, uid, <<>>)
         IN  IF r.raised THEN [raised |-> TRUE, out |-> ledger_df, added |-> 0]
             ELSE [raised |-> FALSE, out |-> ledger_df \o r.add_rows, added |-> Len(r.add_rows)]

(***************************************************************************)
(* Worksheet: the grid of one worksheet is a sequence of lines, the first  *)
(* being the header; a line is a sequence of cells                         *)
(***************************************************************************)
ColSet(columns) == {columns[i] : i \in 1..Len(columns)}

ColPos(header, c) == CHOOSE i \in 1..Len(header) : header[i] = c

\* a clear that leaves the grid as it is
ws_clear_Keep(grid) == grid

\* ws.clear()
ws_clear(grid) == <<>>

\* an update that replaces the whole grid
ws_update_Replace(grid, values) == values

\* ws.update(values): writes the block at A1; cells outside the block stay
ws_update(grid, values) ==
    LET n == IF Len(grid) > Len(values) THEN Len(grid) ELSE Len(values)
    IN  [i \in 1..n |->
            IF i > Len(values) THEN grid[i]
            ELSE IF i > Len(grid) THEN values[i]
            ELSE values[i] \o SubSeq(grid[i], Len(values[i]) + 1, Len(grid[i]))]

ws_append_OverLast(grid, row) ==
    IF Len(grid) > 1 THEN [grid EXCEPT ![Len(grid)] = row] ELSE Append(grid, row)

\* ws.append_row(row): a new line after the last line of the table
ws_append(grid, row) == Append(grid, row)

\* str(h).strip() == "" of ws_read_df
BlankCell(h) == h \in {"", " "}

\* len(header) == 0 or all(str(h).strip() == "" for h in header)
BlankHeader(header) == Len(header) = 0 \/ \A i \in 1..Len(header) : BlankCell(header[i])

\* the header ws_read_df uses: the first line, or columns when it is blank
ReadHeader(values, columns) == IF BlankHeader(values[1]) THEN columns ELSE values[1]

\* pd.DataFrame(data, columns=header) of ws_read_df raises ValueError when the
\* lines of data are not as wide as header: get_all_values returns lines of one
\* width, so this happens when columns replaced a blank first line
ws_read_raises(values, columns) ==
    /\ Len(values) > 1
    /\ Len(values[2]) # Len(ReadHeader(values, columns))

\* ws_read_df(ws_title, columns) on the grid values: a frame of text cells with
\* exactly the columns asked for
ws_read_df(values, columns) ==
    IF values = <<>> THEN <<>>
    ELSE LET header == ReadHeader(values, columns)
         IN  [i \in 1..(Len(values) - 1) |->
                [c \in ColSet(columns) |->
                    IF c \in ColSet(header) /\ ColPos(header, c) <= Len(values[i + 1])
                    THEN values[i + 1][ColPos(header, c)] ELSE <<>>]]

\* values = [columns] + out.astype(str).values.tolist() of ws_write_df, for a
\* frame df whose cells are already text; a column the frame lacks is added as ""
WriteValues(df, columns) ==
    <<columns>> \o [i \in 1..Len(df) |->
                      [j \in 1..Len(columns) |->
                          IF columns[j] \in DOMAIN df[i] THEN df[i][columns[j]] ELSE <<>>]]

\* ws_write_df(ws_title, df, columns) run without interruption: clear, then update
ws_write_df(grid, df, columns) == ws_update(ws_clear(grid), WriteValues(df, columns))

(***************************************************************************)
(* Ledger table                                                            *)
(***************************************************************************)
\* pd.to_datetime(text, errors="coerce") for "YYYY-MM-DD"
ParseDate(s) ==
    IF /\ Len(s) = 10 /\ s[5] = "-" /\ s[8] = "-"
       /\ IsDigits(SubSeq(s, 1, 4)) /\ IsDigits(SubSeq(s, 6, 7)) /\ IsDigits(SubSeq(s, 9, 10))
    THEN LET y == DigitsToNat(SubSeq(s, 1, 4))
             m == DigitsToNat(SubSeq(s, 6, 7))
             d == DigitsToNat(SubSeq(s, 9, 10))
         IN  IF y >= 1 /\ m \in 1..12 /\ d >= 1 /\ d <= DaysInMonth(y, m)
             THEN Timestamp(y, m, d) ELSE NaT
    ELSE NaT

\* pd.to_numeric(col, errors="coerce").fillna(0).astype(int) on one text cell
ToIntCell(s) == LET v == ToNumeric(Str(s)) IN IF v.t = "nan" THEN 0 ELSE v.n

\* load_ledger(): the frame read from the worksheet with amount and date typed
load_ledger(values) ==
    LET df == ws_read_df(values, LEDGER_COLS)
    IN  [i \in 1..Len(df) |->
            [df[i] EXCEPT !.amount = ToIntCell(df[i].amount), !.date = ParseDate(df[i].date)]]

\* the frame save_ledger hands to the worksheet: every cell as str() renders it
LedgerText(df) ==
    [i \in 1..Len(df) |->
        [df[i] EXCEPT !.amount = IntToText(df[i].amount),
                      !.date = IF df[i].date = NaT THEN <<>> ELSE DateToText(df[i].date)]]

\* save_ledger(df) on the grid of the ledger worksheet
save_ledger(grid, df) == ws_write_df(grid, LedgerText(df), LEDGER_COLS)

(***************************************************************************)
(* Money text                                                              *)
(***************************************************************************)
RECURSIVE DropChar(_, _)
DropChar(s, c) ==
    IF s = <<>> THEN <<>>
    ELSE IF Head(s) = c THEN DropChar(Tail(s), c) ELSE <<Head(s)>> \o DropChar(Tail(s), c)

\* re.sub(r"[^\d\-]", "", s)
RECURSIVE KeepDigitsAndMinus(_)
KeepDigitsAndMinus(s) ==
    IF s = <<>> THEN <<>>
    ELSE IF IsDigit(Head(s)) \/ Head(s) = "-" THEN <<Head(s)>> \o KeepDigitsAndMinus(Tail(s))
    ELSE KeepDigitsAndMinus(Tail(s))

\* to_int_money without s.replace(",", ""): the commas are dropped by the
\* re.sub only, and a text that has one is taken as malformed
to_int_money_NoComma(x, default) ==
    LET s == Strip(x)
        t == KeepDigitsAndMinus(s)
    IN  IF x = None THEN default
        ELSE IF s = <<>> THEN default
        ELSE IF Contains(s, <<",">>) THEN default
        ELSE IF IsDigits(t) THEN DigitsToNat(t)
        ELSE default

\* to_int_money(x, default) on a text or None
to_int_money(x, default) ==
    LET s == Strip(x)
        t == KeepDigitsAndMinus(DropChar(s, ","))
    IN  IF x = None THEN default
        ELSE IF s = <<>> THEN default
        ELSE IF t \in {<<>>, <<"-">>, <<"-", "-">>} THEN default
        ELSE IF IsDigits(t) THEN DigitsToNat(t)
        ELSE IF Head(t) = "-" /\ IsDigits(Tail(t)) THEN 0 - DigitsToNat(Tail(t))
        ELSE default

\* f"{n:03d}" for 0 <= n < 1000
Pad3(n) == IF n < 10 THEN <<"0", "0">> \o NatToText(n)
           ELSE IF n < 100 THEN <<"0">> \o NatToText(n)
           ELSE NatToText(n)

\* f"{n:,}" for n >= 0
RECURSIVE GroupThousands(_)
GroupThousands(n) ==
    IF n < 1000 THEN NatToText(n)
    ELSE GroupThousands(n \div 1000) \o <<",">> \o Pad3(n % 1000)

\* money_str(x) on an integer
money_str(x) == IF x < 0 THEN <<"-">> \o GroupThousands(0 - x) ELSE GroupThousands(x)

(***************************************************************************)
(* Rule and card tables                                                    *)
(***************************************************************************)
\* pd.to_numeric(col, errors="coerce").fillna(dflt).astype(int) on one scalar
ToIntOr(x, dflt) == LET v == ToNumeric(x) IN IF v.t = "nan" THEN dflt ELSE v.n

\* .clip(1, 31)
Clip31(n) == IF n < 1 THEN 1 ELSE IF n > 31 THEN 31 ELSE n

\* load_fixed() without its cache: an empty table is returned as read; on a table
\* with rows the statement df["category"] raises KeyError, the frame read having
\* exactly the columns of FIXED_COLS
load_fixed(values) ==
    LET df == ws_read_df(values, FIXED_COLS)
    IN  IF Len(df) > 0 THEN [raised |-> TRUE, df |-> <<>>] ELSE [raised |-> FALSE, df |-> df]

\* load_simple_money_log(ws_title) on the grid of that worksheet: an empty table is
\* returned as read; on a table with rows the statement df["category"] raises
\* KeyError, the frame read having exactly the columns of SIMPLE_COLS
load_simple_money_log(values) ==
    LET df == ws_read_df(values, SIMPLE_COLS)
    IN  IF Len(df) > 0 /\ "category" \notin ColSet(SIMPLE_COLS)
        THEN [raised |-> TRUE, df |-> <<>>] ELSE [raised |-> FALSE, df |-> df]

\* the frame save_fixed hands to the worksheet, every cell as str() renders it
FixedText(fdf) ==
    [i \in 1..Len(fdf) |->
        [fixed_id |-> fdf[i].fixed_id,
         name |-> fdf[i].name,
         amount |-> IntToText(ToIntOr(fdf[i].amount, 0)),
         day |-> IntToText(fdf[i].day.n),
         memo |-> fdf[i].memo]]

\* save_fixed(fdf) on the grid of the fixed_expenses worksheet
save_fixed(grid, fdf) == ws_write_df(grid, FixedText(fdf), FIXED_COLS)

\* load_cards(): the rows with a non-blank card name
load_cards(values) ==
    SelectSeq(ws_read_df(values, CARDS_COLS), LAMBDA r : Strip(r.card_name) # <<>>)

\* save_cards(df) on the grid of the cards worksheet: the lines with a non-blank
\* card name
save_cards(grid, df) ==
    ws_write_df(grid, SelectSeq(df, LAMBDA r : Strip(r.card_name) # <<>>), CARDS_COLS)

\* the type coercions shared by load_card_subs and save_card_subs
SubsTyped(df) ==
    [i \in 1..Len(df) |->
        [df[i] EXCEPT !.amount = Num(ToIntOr(df[i].amount, 0)),
                      !.day = Num(Clip31(ToIntOr(df[i].day, 1)))]]

HasMerchant(r) == Strip(r.merchant) # <<>>

\* load_card_subs() without its cache
load_card_subs(values) ==
    LET df == ws_read_df(values, CARD_SUBS_COLS)
        typed == SubsTyped([i \in 1..Len(df) |->
                     [df[i] EXCEPT !.amount = Str(df[i].amount), !.day = Str(df[i].day)]])
    IN  SelectSeq(typed, HasMerchant)

\* the frame save_card_subs hands to the worksheet, every cell as str() renders it
SubsText(df) ==
    LET out == SelectSeq(SubsTyped(df), HasMerchant)
    IN  [i \in 1..Len(out) |->
            [out[i] EXCEPT !.amount = IntToText(out[i].amount.n),
                           !.day = IntToText(out[i].day.n)]]

\* save_card_subs(df) on the grid of the card_subscriptions worksheet
save_card_subs(grid, df) == ws_write_df(grid, SubsText(df), CARD_SUBS_COLS)

\* the line ws_append_row builds from row_dict: str(v) per column, "" for a
\* missing or None field
AppendLine(row_dict, columns) ==
    [j \in 1..Len(columns) |->
        IF columns[j] \in DOMAIN row_dict /\ row_dict[columns[j]] # None
        THEN row_dict[columns[j]] ELSE <<>>]

\* ws_append_row(ws_title, row_dict, columns) run without interruption
ws_append_row(grid, row_dict, columns) ==
    ws_append(IF grid = <<>> THEN ws_update(grid, <<columns>>) ELSE grid,
              AppendLine(row_dict, columns))

(***************************************************************************)
(* Budget table and budget view                                            *)
(***************************************************************************)
BUDGET_COLS == <<"year", "month", "category", "budget">>

\* "10. 목돈지출", abbreviated
LUMPSUM_CATEGORY == <<"1", "0">>

\* expense_categories, abbreviated to their numbers
expense_categories ==
    <<FoodCategory, <<"2">>, <<"3">>, <<"4">>, <<"5">>, <<"6">>, <<"7">>, <<"8">>,
      FIXED_CATEGORY, LUMPSUM_CATEGORY>>

budget_categories ==
    SelectSeq(expense_categories, LAMBDA c : c \notin {FIXED_CATEGORY, LUMPSUM_CATEGORY})

\* category.isin(cats)
InCats(cats, c) == \E i \in 1..Len(cats) : cats[i] = c

\* a row of another year selected as well
TargetRow_YearOnly(r, year, month) == r.year = year

\* (bdf_all["year"] == year) & (bdf_all["month"] == month)
TargetRow(r, year, month) == r.year = year /\ r.month = month

\* the year and month columns of the frame read, as
\* pd.to_numeric(col, errors="coerce").fillna(0).astype(int)
BudgetKeysTyped(df) ==
    [i \in 1..Len(df) |->
        [df[i] EXCEPT !.year = ToIntOr(Str(df[i].year), 0),
                      !.month = ToIntOr(Str(df[i].month), 0)]]

\* the frame pd.DataFrame({"category": expense_cats, "budget": 0})
DefaultBudget(expense_cats) ==
    [i \in 1..Len(expense_cats) |-> [category |-> expense_cats[i], budget |-> 0]]

\* sort_values("__ord") with __ord = expense_cats.index(category): rows in the
\* order of expense_cats, rows of one category in their order of arrival
RECURSIVE SortByOrd(_, _, _)
SortByOrd(bdf, expense_cats, i) ==
    IF i > Len(expense_cats) THEN <<>>
    ELSE SelectSeq(bdf, LAMBDA r : r.category = expense_cats[i])
         \o SortByOrd(bdf, expense_cats, i + 1)

\* bdf of load_budget_month: category and budget of the month's rows sel, typed,
\* or the default frame when the month has no row
MonthRows(sel, expense_cats) ==
    IF Len(sel) = 0 THEN DefaultBudget(expense_cats)
    ELSE [i \in 1..Len(sel) |->
            [category |-> Strip(sel[i].category), budget |-> ToIntOr(Str(sel[i].budget), 0)]]

\* bdf[bdf["category"].isin(expense_cats)]
InCatsOnly(bdf, expense_cats) == SelectSeq(bdf, LAMBDA r : InCats(expense_cats, r.category))

\* the rows of bdf, a row with budget 0 for every category bdf misses, sorted
WithMissing(bdf, expense_cats) ==
    CHOOSE out \in
        { SortByOrd(all, expense_cats, 1) :
            all \in { bdf \o DefaultBudget(SelectSeq(expense_cats,
                                LAMBDA c : \A i \in 1..Len(bdf) : bdf[i].category # c)) } } :
        TRUE

\* load_budget_month(expense_cats, year, month) without its cache, on the grid of
\* the budgets_monthly worksheet; bdf_all, sel and kept are the frames the local
\* variables of the function hold, each computed once
load_budget_month(values, expense_cats, year, month) ==
    CHOOSE out \in
        { WithMissing(kept, expense_cats) :
            kept \in { InCatsOnly(MonthRows(sel, expense_cats), expense_cats) :
                        sel \in { SelectSeq(bdf_all, LAMBDA r : TargetRow(r, year, month)) :
                                    bdf_all \in {BudgetKeysTyped(ws_read_df(values,
                                                                           BUDGET_COLS))} } } } :
        TRUE

\* out_month of save_budget_month as text: the rows of bdf_month with a category
\* of expense_categories, budget as an integer, under the given year and month
OutMonth(bdf_month, year, month) ==
    LET stripped == [i \in 1..Len(bdf_month) |->
                        [bdf_month[i] EXCEPT !.category = Strip(bdf_month[i].category)]]
        kept == SelectSeq(stripped, LAMBDA r : InCats(expense_categories, r.category))
    IN  [i \in 1..Len(kept) |->
            [year |-> IntToText(year), month |-> IntToText(month),
             category |-> kept[i].category,
             budget |-> IntToText(ToIntOr(kept[i].budget, 0))]]

\* the rows of the table kept although they are of the target month
BudgetOthers_All(values, year, month) == ws_read_df(values, BUDGET_COLS)

\* bdf_all of save_budget_month after the target month's rows are removed, as
\* text: year and month as integers, category and budget as read
BudgetOthers(values, year, month) ==
    LET typed == BudgetKeysTyped(ws_read_df(values, BUDGET_COLS))
        others == SelectSeq(typed, LAMBDA r : ~TargetRow(r, year, month))
    IN  [i \in 1..Len(others) |->
            [others[i] EXCEPT !.year = IntToText(others[i].year),
                              !.month = IntToText(others[i].month)]]

\* save_budget_month(bdf_month, year, month) on the grid of budgets_monthly
save_budget_month(grid, bdf_month, year, month) ==
    ws_write_df(grid, BudgetOthers(grid, year, month) \o OutMonth(bdf_month, year, month),
                BUDGET_COLS)

(***************************************************************************)
(* Bounds and input sets of the function-level specification               *)
(***************************************************************************)
MaxRules == 2
MaxDay == 32
MaxCalls == 2
MaxReloads == 2

Years == {2024, 2025}
Months == 1..12

\* the targets the rule-table cases are drawn for
CoreTargets == {<<2025, 2>>, <<2024, 2>>}

Txt_f1 == <<"f", "1">>
Txt_f2 == <<"f", "2">>
Txt_Rent == <<"R", "e", "n", "t">>
Txt_N == <<"N">>
Txt_m == <<"m">>
Txt_c == <<"c">>
Txt_abc == <<"a", "b", "c">>

SeqsUpTo(S, n) == UNION {[1..k -> S] : k \in 0..n}

FixedRule(fixed_id, name, amount, day, memo) ==
    [fixed_id |-> fixed_id, name |-> name, amount |-> amount, day |-> day, memo |-> memo]

\* well-typed fixed-expense rules: blank and non-blank ids, a repeated id, zero
\* amount, with and without name and memo
TypedFixedRules ==
    { FixedRule(Txt_f1, Txt_Rent, Num(800000), Num(31), <<>>),
      FixedRule(Txt_f2, <<>>, Num(0), Num(1), Txt_m),
      FixedRule(Txt_f1, Txt_N, Num(5), Num(15), Txt_m),
      FixedRule(<<>>, Txt_N, Num(5), Num(1), <<>>),
      FixedRule(<<" ">>, Txt_N, Num(5), Num(1), <<>>) }

\* malformed fixed-expense rules: non-numeric, empty and missing amount or day
MalformedFixedRules ==
    { FixedRule(Txt_f2, Txt_N, Str(Txt_abc), Num(1), <<>>),
      FixedRule(Txt_f2, Txt_N, Num(5), NaN, <<>>),
      FixedRule(Txt_f2, Txt_N, Str(<<>>), Num(1), <<>>) }

\* one rule for every day value, as number and as the text a worksheet returns
DaySweepFixedRules ==
    {FixedRule(Txt_f2, Txt_N, Num(7), Num(d), <<>>) : d \in (0 - 1)..MaxDay}
    \cup {FixedRule(Txt_f2, Txt_N, Num(7), Str(IntToText(d)), <<>>) : d \in {0, 31}}

FixedTables == SeqsUpTo(TypedFixedRules \cup MalformedFixedRules, MaxRules)

SubsRule(card_name, merchant, amount, day, memo) ==
    [card_name |-> card_name, merchant |-> merchant, amount |-> amount, day |-> day,
     memo |-> memo]

\* well-typed subscription rules: blank merchant, zero and negative amount, a
\* repeated (card, merchant) pair, a merchant that differs only in characters
\* the sanitizer removes, no card
TypedSubsRules ==
    { SubsRule(Txt_c, Txt_N, Num(9900), Num(31), <<>>),
      SubsRule(Txt_c, Txt_N, Num(500), Num(3), Txt_m),
      SubsRule(Txt_c, <<"N", "!">>, Num(700), Num(1), <<>>),
      SubsRule(<<>>, <<"a", " ", "b">>, Num(0 - 3), Num(1), <<>>),
      SubsRule(Txt_c, <<" ">>, Num(100), Num(1), <<>>),
      SubsRule(Txt_c, Txt_abc, Num(0), Num(1), <<>>) }

MalformedSubsRules ==
    { SubsRule(Txt_c, Txt_abc, Str(Txt_abc), Num(1), <<>>),
      SubsRule(Txt_c, <<>>, Num(5), NaN, <<>>) }

DaySweepSubsRules ==
    {SubsRule(Txt_c, Txt_abc, Num(7), Num(d), <<>>) : d \in (0 - 1)..MaxDay}

SubsTables == SeqsUpTo(TypedSubsRules \cup MalformedSubsRules, MaxRules)

LedgerRow(id, date, type, category, amount, memo, fixed_key, user) ==
    [id |-> id, date |-> date, type |-> type, category |-> category, amount |-> amount,
     memo |-> memo, fixed_key |-> fixed_key, user |-> user]

\* a manually entered row
ManualRow(year, month) ==
    LedgerRow(<<"a">>, Timestamp(year, month, 2), Expense, FoodCategory, 1200, Txt_m, <<>>, Me)

\* ledger snapshots for target (year, month): empty, manual rows only, and rows
\* already materialized for that month
Snapshots(year, month) ==
    { <<>>,
      <<ManualRow(year, month)>>,
      <<ManualRow(year, month),
        LedgerRow(<<"b">>, Timestamp(year, month, 28), Expense, FIXED_CATEGORY, 800000,
                  FixedMemo(Txt_Rent, <<>>), FixedKey(Txt_f1, year, month), Me)>>,
      <<LedgerRow(<<"b">>, Timestamp(year, month, 28), Expense, FIXED_CATEGORY, 9900,
                  SubsMemo(Txt_c, Txt_N, <<>>), SubsKey(Txt_c, Txt_N, year, month), Me)>> }

(***************************************************************************)
(* Handlers of the page, as functions of what they read                    *)
(***************************************************************************)
\* date inside the month (start_date <= date <= end_date); NaT compares false
InMonth(ts, year, month) == ts # NaT /\ ts.y = year /\ ts.m = month

\* month_ledger of the main tab
month_ledger(ledger, year, month) ==
    SelectSeq(ledger, LAMBDA r : InMonth(r.date, year, month))

\* month_ledger after the "only mine" box of the main tab
OnlyMine(ml, show_only_mine, user) ==
    IF show_only_mine THEN SelectSeq(ml, LAMBDA r : r.user = user) ELSE ml

\* expense_month of the budget status
expense_month(ml) ==
    SelectSeq(ml, LAMBDA r : r.type = Expense /\ InCats(budget_categories, r.category))

\* spent_by_cat[c], 0 for a category without rows:
\* groupby("category")["amount"].sum() mapped on the category and fillna(0)
RECURSIVE spent_by_cat(_, _)
spent_by_cat(em, c) ==
    IF em = <<>> THEN 0
    ELSE (IF Head(em).category = c THEN Head(em).amount ELSE 0) + spent_by_cat(Tail(em), c)

\* a status that counts a difference of 0 as over
BudgetStatus_Strict(x) == IF x > 0 THEN "under" ELSE "over"

\* "남음" if x >= 0 else "초과"
BudgetStatus(x) == IF x >= 0 THEN "under" ELSE "over"

\* budget_current of the main tab with its spent, diff and status columns, from
\* the ledger frame and the frame load_budget_month gave
budget_status(ledger, budget_current, year, month, show_only_mine, user) ==
    LET em == expense_month(OnlyMine(month_ledger(ledger, year, month), show_only_mine, user))
    IN  [i \in 1..Len(budget_current) |->
            LET spent == spent_by_cat(em, budget_current[i].category)
            IN  [category |-> budget_current[i].category,
                 budget |-> budget_current[i].budget,
                 spent |-> spent,
                 diff |-> budget_current[i].budget - spent,
                 status |-> BudgetStatus(budget_current[i].budget - spent)]]

\* the ledger editor's frame: one line per row of month_ledger, the delete box
\* unchecked and the amount as money text
LedgerView(ml) ==
    [i \in 1..Len(ml) |->
        [id |-> ml[i].id, delete |-> FALSE, date |-> ml[i].date, type |-> ml[i].type,
         category |-> ml[i].category, amount_str |-> money_str(ml[i].amount),
         memo |-> ml[i].memo]]

IdsOf(df) == {df[i].id : i \in 1..Len(df)}

DeleteIds(edited) == {edited[i].id : i \in {j \in 1..Len(edited) : edited[j].delete}}

\* the editor line of id
LineWithId(edited, id) == edited[CHOOSE i \in 1..Len(edited) : edited[i].id = id]

\* an edit-save that stores the rows of the editor only: the rows of the other
\* months are lost
ledger_save_ViewOnly(ledger, edited) ==
    LET keep == SelectSeq(edited, LAMBDA e : ~e.delete)
        shown == SelectSeq(ledger, LAMBDA r : r.id \in IdsOf(keep))
    IN  [i \in 1..Len(shown) |->
            LET e == LineWithId(keep, shown[i].id)
            IN  [shown[i] EXCEPT !.date = e.date, !.type = e.type, !.category = e.category,
                                 !.amount = to_int_money(e.amount_str, 0), !.memo = e.memo]]

\* ledger_save: the rows of the editor that are not checked replace date, type,
\* category, amount and memo of the ledger rows with their ids; the checked ids are
\* dropped
ledger_save(ledger, edited) ==
    LET keep == SelectSeq(edited, LAMBDA e : ~e.delete)
        updated == [i \in 1..Len(ledger) |->
                       IF ledger[i].id \in IdsOf(keep)
                       THEN LET e == LineWithId(keep, ledger[i].id)
                            IN  [ledger[i] EXCEPT !.date = e.date, !.type = e.type,
                                                  !.category = e.category,
                                                  !.amount = to_int_money(e.amount_str, 0),
                                                  !.memo = e.memo]
                       ELSE ledger[i]]
    IN  SelectSeq(updated, LAMBDA r : r.id \notin DeleteIds(edited))

\* a delete that stores the unchecked rows of the editor only
ledger_delete_FromView(ledger, edited) ==
    SelectSeq(ledger, LAMBDA r : r.id \in IdsOf(edited) \ DeleteIds(edited))

\* ledger_delete: the rows whose ids are checked are dropped
ledger_delete(ledger, edited) == SelectSeq(ledger, LAMBDA r : r.id \notin DeleteIds(edited))

\* the placeholder line shown while no fixed expense is stored ("예: 월세")
PlaceholderName == <<"e", ":", " ", "R">>

FixedPlaceholder(id) == FixedRule(id, PlaceholderName, Num(0), Num(1), <<>>)

\* fview: the fixed editor's frame; src is the row of fdf a line was made from
\* and 0 for a line the user added (the editor's own row bookkeeping, which the
\* handler does not read)
FixedView(frame) ==
    [i \in 1..Len(frame) |->
        [name |-> frame[i].name, amount_str |-> money_str(frame[i].amount.n),
         day |-> frame[i].day, memo |-> frame[i].memo, src |-> i]]

\* the loop of fixed_save: line i gets original_ids[i] while i is within
\* original_ids, and a new identifier beyond
FixedIds(original_ids, edited_fixed, uid) ==
    [i \in 1..Len(edited_fixed) |->
        IF i <= Len(original_ids) THEN original_ids[i]
        ELSE uuid4(uid + (i - Len(original_ids)) - 1)]

\* number of identifiers FixedIds draws
FixedIdsDrawn(original_ids, edited_fixed) ==
    IF Len(edited_fixed) > Len(original_ids) THEN Len(edited_fixed) - Len(original_ids) ELSE 0

\* fixed_save: the frame handed to save_fixed
fixed_save(original_ids, edited_fixed, uid) ==
    LET fixed_ids == FixedIds(original_ids, edited_fixed, uid)
    IN  [i \in 1..Len(edited_fixed) |->
            FixedRule(fixed_ids[i], edited_fixed[i].name,
                      Num(to_int_money(edited_fixed[i].amount_str, 0)),
                      Num(Clip31(ToIntOr(edited_fixed[i].day, 1))),
                      edited_fixed[i].memo)]

\* a save that hands on the lines of the selected card only
save_subs_CardOnly(subs, selected_card, edited) ==
    LET out == [i \in 1..Len(edited) |->
                   SubsRule(selected_card, edited[i].merchant,
                            Num(to_int_money(edited[i].amount_str, 0)),
                            Num(Clip31(ToIntOr(edited[i].day, 1))),
                            edited[i].memo)]
    IN  SelectSeq(out, HasMerchant)

\* save_subs_no_active: the frame handed to save_card_subs
save_subs(subs, selected_card, edited) ==
    LET out == [i \in 1..Len(edited) |->
                   SubsRule(selected_card, edited[i].merchant,
                            Num(to_int_money(edited[i].amount_str, 0)),
                            Num(Clip31(ToIntOr(edited[i].day, 1))),
                            edited[i].memo)]
        rest == SelectSeq(subs, LAMBDA r : r.card_name # selected_card)
    IN  rest \o SelectSeq(out, HasMerchant)

\* an apply button that saves whatever the count
ApplyOutcome_AlwaysSave(grid, r) ==
    [values |-> save_ledger(grid, r.out), store_op |-> "write", cleared |-> TRUE,
     msg |-> "success"]

\* the branches of apply_fixed_btn_main and apply_subs_btn_main on the result r
\* of the materializer: save and clear the cache when rows were added, else
\* st.info only
ApplyOutcome(grid, r) ==
    IF r.added > 0
    THEN [values |-> save_ledger(grid, r.out), store_op |-> "write", cleared |-> TRUE,
          msg |-> "success"]
    ELSE [values |-> grid, store_op |-> "none", cleared |-> FALSE, msg |-> "info"]

(***************************************************************************)
(* State                                                                   *)
(***************************************************************************)
VARIABLES
    ledger_df,        \* the ledger frame held by the caller of the materializer
    fixed_df,         \* the fixed-expense rule frame
    subs_df,          \* the subscription rule frame
    selected_year,    \* the target year
    selected_month,   \* the target month
    ledger_values,    \* the grid of the "ledger" worksheet
    uuid_next,        \* number of identifiers drawn so far
    call              \* the last materializer call: inputs, outcome, call number

matVars == <<ledger_df, fixed_df, subs_df, selected_year, selected_month, ledger_values,
             uuid_next, call>>

VARIABLES
    ws_exists,        \* whether the worksheet of the table exists in the spreadsheet
    ws_values,        \* the grid of that worksheet
    ws_initial,       \* the grid before the sessions started
    job,              \* per session: the store call it makes and its arguments
    pc,               \* per session: the statement the call is at
    existing,         \* per session: the local variable existing of ws_append_row
    ret               \* per session: how the call ended and what it returned

storeVars == <<ws_exists, ws_values, ws_initial, job, pc, existing, ret>>

VARIABLES
    fixed_values,     \* the grid of the "fixed_expenses" worksheet
    subs_values,      \* the grid of the "card_subscriptions" worksheet
    cards_values,     \* the grid of the "cards" worksheet
    budget_values,    \* the grid of the "budgets_monthly" worksheet
    simple_values,    \* the grids of the "events" and "zeropay" worksheets
    cache,            \* st.cache_data: the stored results of load_fixed, load_card_subs
                      \* and, per month, load_budget_month
    fdf,              \* the last script run: whether it reached the tabs, and the
                      \* frame load_fixed gave the fixed tab
    last,             \* what the last handler did
    bcall             \* the last call of a budget function or of to_int_money:
                      \* arguments and result

appVars == <<fixed_values, subs_values, cards_values, budget_values, simple_values, cache, fdf,
             last, bcall>>

vars == <<matVars, storeVars, appVars>>

NoEntry == [hit |-> FALSE, df |-> <<>>]

\* the months the month selector is set to
AppTargets == {<<2025, 2>>, <<2025, 3>>}

\* the month a month selector shows until it is changed: today's
Today == <<2025, 2>>

\* st.cache_data after st.cache_data.clear()
NoCache == [fixed |-> NoEntry, subs |-> NoEntry, budget |-> [t \in AppTargets |-> NoEntry]]

\* the simple logs with no worksheet content
NoLogs == [events |-> <<>>, zeropay |-> <<>>]

\* no budget function and no money function called
NoBudgetCall == [op |-> "none", year |-> 0, month |-> 0, rows |-> <<>>, before |-> <<>>,
                 only_mine |-> FALSE, result |-> <<>>, n |-> 0]

\* handler: the key of the button; added: the materializer's count; store_op: the
\* store call issued ("write" for ws_write_df, "append" for ws_append_row);
\* cleared: st.cache_data.clear() was called; msg: st.success, st.info or
\* st.warning; original_ids, edited: what fixed_save worked on; for the handlers
\* of the ledger, edited is the form or the editor frame submitted, and for
\* ledger_save before is the grid of the ledger worksheet when it started
NoRun == [handler |-> "none", added |-> 0, store_op |-> "none", cleared |-> FALSE,
          msg |-> "none", original_ids |-> <<>>, edited |-> <<>>, before |-> <<>>,
          selected_card |-> <<>>]

\* the page part of a state in which no page is served
AppIdle ==
    /\ fixed_values = <<>>
    /\ subs_values = <<>>
    /\ cards_values = <<>>
    /\ budget_values = <<>>
    /\ simple_values = NoLogs
    /\ bcall = NoBudgetCall
    /\ cache = NoCache
    /\ fdf = [shown |-> FALSE, df |-> <<>>]
    /\ last = NoRun

\* the store part of a state in which no store call is followed step by step:
\* job holds st.session_state.current_user of the one session, "me" as after a
\* login with the single password
StoreIdle ==
    /\ ws_exists = FALSE
    /\ ws_values = <<>>
    /\ ws_initial = <<>>
    /\ job = <<[current_user |-> Me]>>
    /\ pc = <<>>
    /\ existing = <<>>
    /\ ret = <<>>

\* a current_user() that returns the session's value as it is
current_user_Raw == job[1].current_user

\* current_user(): u = str(st.session_state.current_user or "").strip();
\* return u if u else "me"
current_user ==
    LET u == Strip(job[1].current_user)
    IN  IF u = <<>> THEN Me ELSE u

\* the materializer part of a state in which no materializer call is made
MatIdle ==
    /\ ledger_df = <<>>
    /\ fixed_df = <<>>
    /\ subs_df = <<>>
    /\ selected_year = 2025
    /\ selected_month = 1
    /\ ledger_values = <<>>
    /\ uuid_next = 0
    /\ call = [op |-> "none", raised |-> FALSE, added |-> 0, before |-> <<>>, out |-> <<>>,
               nth |-> 0, prev |-> 0, reloads |-> 0, reloaded |-> 0]

\* op: the function called; before, out, added, raised: its ledger argument and
\* its outcome; nth: calls so far; prev: the count the call before it returned;
\* reloads: save_ledger/load_ledger round trips since the call
\* reloaded: the round trips between the call before it and this call
NoCall == [op |-> "none", raised |-> FALSE, added |-> 0, before |-> <<>>, out |-> <<>>,
           nth |-> 0, prev |-> 0, reloads |-> 0, reloaded |-> 0]

(***************************************************************************)
(* Function-level specification: the materializer on drawn inputs          *)
(***************************************************************************)
\* either a rule table of up to MaxRules rules over a ledger snapshot, or one rule
\* of the day sweep for every target month
MatInit ==
    /\ \/ /\ \E t \in CoreTargets : selected_year = t[1] /\ selected_month = t[2]
          /\ ledger_df \in Snapshots(selected_year, selected_month)
          /\ \/ fixed_df \in FixedTables /\ subs_df = <<>>
             \/ fixed_df = <<>> /\ subs_df \in SubsTables
       \/ /\ selected_year \in Years
          /\ selected_month \in Months
          /\ ledger_df = <<>>
          /\ \/ fixed_df \in {<<r>> : r \in DaySweepFixedRules} /\ subs_df = <<>>
             \/ fixed_df = <<>> /\ subs_df \in {<<r>> : r \in DaySweepSubsRules}
    /\ ledger_values = save_ledger(<<>>, ledger_df)
    /\ uuid_next = 0
    /\ call = NoCall
    /\ StoreIdle
    /\ AppIdle

\* ledger_df, added = apply_fixed_to_ledger_for_month(ledger_df, fixed_df, y, m)
CallApplyFixed ==
    LET r == apply_fixed_to_ledger_for_month(ledger_df, fixed_df, selected_year,
                                             selected_month, current_user, uuid_next)
    IN  /\ call.op \in {"none", "fixed"}
        /\ ~call.raised
        /\ call.nth < MaxCalls
        /\ ledger_df' = r.out
        /\ uuid_next' = uuid_next + r.added
        /\ call' = [op |-> "fixed", raised |-> r.raised, added |-> r.added,
                    before |-> ledger_df, out |-> r.out, nth |-> call.nth + 1,
                    prev |-> call.added, reloads |-> 0, reloaded |-> call.reloads]
        /\ UNCHANGED <<fixed_df, subs_df, selected_year, selected_month, ledger_values>>
        /\ UNCHANGED storeVars
        /\ UNCHANGED appVars

\* ledger_df, added = apply_subs_to_ledger_for_month(ledger_df, subs_df, y, m)
CallApplySubs ==
    LET r == apply_subs_to_ledger_for_month(ledger_df, subs_df, selected_year,
                                            selected_month, current_user, uuid_next)
    IN  /\ call.op \in {"none", "subs"}
        /\ ~call.raised
        /\ call.nth < MaxCalls
        /\ ledger_df' = r.out
        /\ uuid_next' = uuid_next + r.added
        /\ call' = [op |-> "subs", raised |-> r.raised, added |-> r.added,
                    before |-> ledger_df, out |-> r.out, nth |-> call.nth + 1,
                    prev |-> call.added, reloads |-> 0, reloaded |-> call.reloads]
        /\ UNCHANGED <<fixed_df, subs_df, selected_year, selected_month, ledger_values>>
        /\ UNCHANGED storeVars
        /\ UNCHANGED appVars

\* save_ledger(ledger_df) followed by ledger_df = load_ledger()
PersistAndReload ==
    /\ call.op # "none"
    /\ call.reloads < MaxReloads
    /\ ledger_values' = save_ledger(ledger_values, ledger_df)
    /\ ledger_df' = load_ledger(ledger_values')
    /\ call' = [call EXCEPT !.reloads = @ + 1]
    /\ UNCHANGED <<fixed_df, subs_df, selected_year, selected_month, uuid_next>>
    /\ UNCHANGED storeVars
    /\ UNCHANGED appVars

MatNext == CallApplyFixed \/ CallApplySubs \/ PersistAndReload

SpecMat == MatInit /\ [][MatNext]_vars

(***************************************************************************)
(* Store-level specification: two sessions, each making one ws_write_df or *)
(* ws_append_row call on the same worksheet, one remote call per step      *)
(***************************************************************************)
MaxRows == 2

Sessions == {1, 2}

\* the row a session stores: its id names the session and the row
SimpleRow(tag, k) ==
    [id |-> <<tag>> \o NatToText(k), date |-> DateToText(Timestamp(2025, 2, k)),
     type |-> Expense, amount |-> IntToText(100 * k), memo |-> <<>>, user |-> Me]

SessionTag(s) == IF s = 1 THEN "a" ELSE "b"

\* the frame session s stores when its call stores n rows
SessionFrame(s, n) == [k \in 1..n |-> SimpleRow(SessionTag(s), k)]

\* the worksheet before the sessions start: missing, empty, or a header with rows
\* stored earlier
StoredGrids == {WriteValues([k \in 1..n |-> SimpleRow("s", k)], SIMPLE_COLS) : n \in 0..MaxRows}

\* the calls a session can make: kind is the function called, columns and df its
\* arguments (df holds the one row_dict of a ws_append_row call)
SessionJobs(s) ==
    {[kind |-> "write", columns |-> SIMPLE_COLS, df |-> SessionFrame(s, n)] : n \in 0..MaxRows}
    \cup {[kind |-> "append", columns |-> SIMPLE_COLS, df |-> SessionFrame(s, 1)]}

\* a call that has not ended: no error, no remote call repeated, nothing returned
NoReturn == [error |-> "none", attempts |-> 0, created |-> FALSE, df |-> <<>>]

StoreInit ==
    /\ \/ ws_exists = FALSE /\ ws_values = <<>>
       \/ ws_exists = TRUE /\ ws_values \in {<<>>} \cup StoredGrids
    /\ ws_initial = ws_values
    /\ \E j1 \in SessionJobs(1), j2 \in SessionJobs(2) : job = [s \in Sessions |-> IF s = 1 THEN j1 ELSE j2]
    /\ pc = [s \in Sessions |-> "lookup"]
    /\ existing = [s \in Sessions |-> <<>>]
    /\ ret = [s \in Sessions |-> NoReturn]
    /\ MatIdle
    /\ AppIdle

\* the frame (ws_write_df) or the row_dict (ws_append_row, its one row) of session s
JobFrame(s) == job[s].df

AfterWorksheet(s) == IF job[s].kind = "write" THEN "clear" ELSE "get_all_values"

\* get_or_create_worksheet: sh.worksheet(title) returns the worksheet or raises
\* WorksheetNotFound
Lookup(s) ==
    /\ pc[s] = "lookup"
    /\ pc' = [pc EXCEPT ![s] = IF ws_exists THEN AfterWorksheet(s) ELSE "add_worksheet"]
    /\ UNCHANGED <<ws_exists, ws_values, ws_initial, job, existing, ret>>
    /\ UNCHANGED matVars
    /\ UNCHANGED appVars

\* get_or_create_worksheet: sh.add_worksheet(...); on APIError (the worksheet was
\* created meanwhile) sh.worksheet(title) returns the existing one
AddWorksheet(s) ==
    /\ pc[s] = "add_worksheet"
    /\ ws_exists' = TRUE
    /\ pc' = [pc EXCEPT ![s] = AfterWorksheet(s)]
    /\ ret' = [ret EXCEPT ![s].created = ~ws_exists]
    /\ UNCHANGED <<ws_values, ws_initial, job, existing>>
    /\ UNCHANGED matVars
    /\ UNCHANGED appVars

\* ws_write_df: ws.clear()
WriteClear(s) ==
    /\ pc[s] = "clear"
    /\ ws_values' = ws_clear(ws_values)
    /\ pc' = [pc EXCEPT ![s] = "update"]
    /\ UNCHANGED <<ws_exists, ws_initial, job, existing, ret>>
    /\ UNCHANGED matVars
    /\ UNCHANGED appVars

\* ws_write_df: ws.update(values)
WriteUpdate(s) ==
    /\ pc[s] = "update"
    /\ ws_values' = ws_update(ws_values, WriteValues(JobFrame(s), job[s].columns))
    /\ pc' = [pc EXCEPT ![s] = "done"]
    /\ UNCHANGED <<ws_exists, ws_initial, job, existing, ret>>
    /\ UNCHANGED matVars
    /\ UNCHANGED appVars

\* ws_append_row: existing = ws.get_all_values()
AppendRead(s) ==
    /\ pc[s] = "get_all_values"
    /\ job[s].kind = "append"
    /\ existing' = [existing EXCEPT ![s] = ws_values]
    /\ pc' = [pc EXCEPT ![s] = IF ws_values = <<>> THEN "header" ELSE "append_row"]
    /\ UNCHANGED <<ws_exists, ws_values, ws_initial, job, ret>>
    /\ UNCHANGED matVars
    /\ UNCHANGED appVars

\* ws_append_row: ws.update([columns]) when existing was empty
AppendHeader(s) ==
    /\ pc[s] = "header"
    /\ ws_values' = ws_update(ws_values, <<job[s].columns>>)
    /\ pc' = [pc EXCEPT ![s] = "append_row"]
    /\ UNCHANGED <<ws_exists, ws_initial, job, existing, ret>>
    /\ UNCHANGED matVars
    /\ UNCHANGED appVars

\* ws_append_row: ws.append_row(row)
AppendRow(s) ==
    /\ pc[s] = "append_row"
    /\ ws_values' = ws_append(ws_values, AppendLine(JobFrame(s)[1], job[s].columns))
    /\ pc' = [pc EXCEPT ![s] = "done"]
    /\ UNCHANGED <<ws_exists, ws_initial, job, existing, ret>>
    /\ UNCHANGED matVars
    /\ UNCHANGED appVars

StoreNext ==
    \E s \in Sessions :
        \/ Lookup(s)
        \/ AddWorksheet(s)
        \/ WriteClear(s)
        \/ WriteUpdate(s)
        \/ AppendRead(s)
        \/ AppendHeader(s)
        \/ AppendRow(s)

SpecStore == StoreInit /\ [][StoreNext]_vars

(***************************************************************************)
(* Append-level specification: two sessions, each making one ws_append_row *)
(* call on the same worksheet, their remote calls interleaved              *)
(***************************************************************************)
\* the row_dict a session appends: every column given, memo missing, memo None
AppendDicts(s) ==
    LET full == SimpleRow(SessionTag(s), 1)
    IN  { full,
          [c \in DOMAIN full \ {"memo"} |-> full[c]],
          [full EXCEPT !.memo = None] }

AppendInit ==
    /\ \/ ws_exists = FALSE /\ ws_values = <<>>
       \/ ws_exists = TRUE /\ ws_values \in {<<>>} \cup StoredGrids
    /\ ws_initial = ws_values
    /\ \E d1 \in AppendDicts(1), d2 \in AppendDicts(2) :
          job = [s \in Sessions |->
                    [kind |-> "append", columns |-> SIMPLE_COLS,
                     df |-> <<IF s = 1 THEN d1 ELSE d2>>]]
    /\ pc = [s \in Sessions |-> "lookup"]
    /\ existing = [s \in Sessions |-> <<>>]
    /\ ret = [s \in Sessions |-> NoReturn]
    /\ MatIdle
    /\ AppIdle

AppendNext ==
    \E s \in Sessions :
        \/ Lookup(s)
        \/ AddWorksheet(s)
        \/ AppendRead(s)
        \/ AppendHeader(s)
        \/ AppendRow(s)

SpecAppend == AppendInit /\ [][AppendNext]_vars

(***************************************************************************)
(* Table-level specification: one caller making ws_read_df, ws_write_df    *)
(* and ws_append_row calls on a worksheet whose grid anyone may have       *)
(* stored; one remote call per step, and a remote call may raise           *)
(***************************************************************************)
Caller == 1

\* a stored cell: the text of line i, column j
CellText(i, j) == <<IF j = 1 THEN "p" ELSE IF j = 2 THEN "q" ELSE "r">> \o NatToText(i)

\* first lines a worksheet of the cards table can hold: the schema, a reordering,
\* a subset, a superset, an unknown column, and blank lines of several widths
SheetHeaders ==
    {CARDS_COLS, <<"benefits", "card_name">>, <<"card_name">>,
     <<"card_name", "note", "benefits">>, <<"note">>, <<"", "">>, <<"", " ", "">>, <<"">>}

\* grids get_all_values can return: a first line and up to MaxRows lines of the
\* same width
SheetGrids ==
    {[i \in 1..(n + 1) |-> IF i = 1 THEN h ELSE [j \in 1..Len(h) |-> CellText(i - 1, j)]] :
        h \in SheetHeaders, n \in 0..MaxRows}

\* frames the caller writes under CARDS_COLS: text cells, some empty, with or
\* without the benefits column
CardRow(k) == [card_name |-> <<"c">> \o NatToText(k), benefits |-> IF k = 1 THEN <<>> ELSE <<"b">>]

CardFrames ==
    {[k \in 1..n |-> CardRow(k)] : n \in 0..MaxRows}
    \cup {[k \in 1..n |-> [card_name |-> CardRow(k).card_name]] : n \in 1..MaxRows}

TableJobs ==
    {[kind |-> "read", columns |-> CARDS_COLS, df |-> <<>>]}
    \cup {[kind |-> "write", columns |-> CARDS_COLS, df |-> df] : df \in CardFrames}
    \cup {[kind |-> "append", columns |-> CARDS_COLS, df |-> <<CardRow(1)>>]}

NoJob == [kind |-> "none", columns |-> <<>>, df |-> <<>>]

TableInit ==
    /\ \/ ws_exists = FALSE /\ ws_values = <<>>
       \/ ws_exists = TRUE /\ ws_values \in {<<>>} \cup SheetGrids
    /\ ws_initial = ws_values
    /\ \E j \in TableJobs : job = [s \in Sessions |-> IF s = Caller THEN j ELSE NoJob]
    /\ pc = [s \in Sessions |-> IF s = Caller THEN "lookup" ELSE "done"]
    /\ existing = [s \in Sessions |-> <<>>]
    /\ ret = [s \in Sessions |-> NoReturn]
    /\ MatIdle
    /\ AppIdle

\* the remote calls of the store functions other than add_worksheet
RemoteCalls == {"lookup", "lookup_again", "clear", "update", "get_all_values", "header", "append_row"}

RemoteCallRaises_AsNotFound(s) ==
    /\ pc[s] \in RemoteCalls
    /\ pc' = [pc EXCEPT ![s] = IF pc[s] = "lookup" THEN "add_worksheet" ELSE "raised"]
    /\ ret' = IF pc[s] = "lookup" THEN ret
              ELSE [ret EXCEPT ![s].error = "transient", ![s].attempts = 1]
    /\ UNCHANGED <<ws_exists, ws_values, ws_initial, job, existing>>
    /\ UNCHANGED matVars
    /\ UNCHANGED appVars

\* a remote call raises an error of the service (APIError, a connection error):
\* no statement of the store functions catches it or issues the call again, so
\* the function raises it after the one attempt
RemoteCallRaises(s) ==
    /\ pc[s] \in RemoteCalls
    /\ pc' = [pc EXCEPT ![s] = "raised"]
    /\ ret' = [ret EXCEPT ![s].error = "transient", ![s].attempts = 1]
    /\ UNCHANGED <<ws_exists, ws_values, ws_initial, job, existing>>
    /\ UNCHANGED matVars
    /\ UNCHANGED appVars

\* an APIError of add_worksheet that leaves the function
AddWorksheetRaises_Propagates(s) ==
    /\ pc[s] = "add_worksheet"
    /\ pc' = [pc EXCEPT ![s] = "raised"]
    /\ ret' = [ret EXCEPT ![s].error = "transient", ![s].attempts = 1]
    /\ UNCHANGED <<ws_exists, ws_values, ws_initial, job, existing>>
    /\ UNCHANGED matVars
    /\ UNCHANGED appVars

\* get_or_create_worksheet: sh.add_worksheet(...) raises APIError; the function
\* then returns sh.worksheet(title)
AddWorksheetRaises(s) ==
    /\ pc[s] = "add_worksheet"
    /\ pc' = [pc EXCEPT ![s] = "lookup_again"]
    /\ UNCHANGED <<ws_exists, ws_values, ws_initial, job, existing, ret>>
    /\ UNCHANGED matVars
    /\ UNCHANGED appVars

\* get_or_create_worksheet: the second sh.worksheet(title), outside any try:
\* WorksheetNotFound leaves the function when the worksheet is still missing
LookupAgain(s) ==
    /\ pc[s] = "lookup_again"
    /\ IF ws_exists
       THEN /\ pc' = [pc EXCEPT ![s] = AfterWorksheet(s)]
            /\ ret' = ret
       ELSE /\ pc' = [pc EXCEPT ![s] = "raised"]
            /\ ret' = [ret EXCEPT ![s].error = "WorksheetNotFound", ![s].attempts = 1]
    /\ UNCHANGED <<ws_exists, ws_values, ws_initial, job, existing>>
    /\ UNCHANGED matVars
    /\ UNCHANGED appVars

\* ws_read_df: values = ws.get_all_values() and the frame built from it
ReadValues(s) ==
    /\ pc[s] = "get_all_values"
    /\ job[s].kind \in {"read", "read_back"}
    /\ IF ws_values # <<>> /\ ws_read_raises(ws_values, job[s].columns)
       THEN /\ pc' = [pc EXCEPT ![s] = "raised"]
            /\ ret' = [ret EXCEPT ![s].error = "ValueError"]
       ELSE /\ pc' = [pc EXCEPT ![s] = "done"]
            /\ ret' = [ret EXCEPT ![s].df = ws_read_df(ws_values, job[s].columns)]
    /\ UNCHANGED <<ws_exists, ws_values, ws_initial, job, existing>>
    /\ UNCHANGED matVars
    /\ UNCHANGED appVars

\* the caller, its ws_write_df call returned, calls ws_read_df with the same
\* columns; df keeps the frame that was written
ReadBack(s) ==
    /\ pc[s] = "done"
    /\ job[s].kind = "write"
    /\ job' = [job EXCEPT ![s].kind = "read_back"]
    /\ pc' = [pc EXCEPT ![s] = "lookup"]
    /\ ret' = [ret EXCEPT ![s] = NoReturn]
    /\ UNCHANGED <<ws_exists, ws_values, ws_initial, existing>>
    /\ UNCHANGED matVars
    /\ UNCHANGED appVars

TableNext ==
    \/ Lookup(Caller)
    \/ AddWorksheet(Caller)
    \/ AddWorksheetRaises(Caller)
    \/ LookupAgain(Caller)
    \/ RemoteCallRaises(Caller)
    \/ WriteClear(Caller)
    \/ WriteUpdate(Caller)
    \/ AppendRead(Caller)
    \/ AppendHeader(Caller)
    \/ AppendRow(Caller)
    \/ ReadValues(Caller)
    \/ ReadBack(Caller)

SpecTable == TableInit /\ [][TableNext]_vars

(***************************************************************************)
(* Creation: two sessions, each making one store call on a title that has  *)
(* no worksheet yet, every remote call of get_or_create_worksheet a step;  *)
(* the spreadsheet holds at most one worksheet of a title, so add_worksheet*)
(* for a title that exists raises APIError                                 *)
(***************************************************************************)
CreateInit ==
    /\ ws_exists = FALSE
    /\ ws_values = <<>>
    /\ ws_initial = ws_values
    /\ \E j1 \in SessionJobs(1), j2 \in SessionJobs(2) :
          job = [s \in Sessions |-> IF s = 1 THEN j1 ELSE j2]
    /\ pc = [s \in Sessions |-> "lookup"]
    /\ existing = [s \in Sessions |-> <<>>]
    /\ ret = [s \in Sessions |-> NoReturn]
    /\ MatIdle
    /\ AppIdle

\* sh.add_worksheet(...) when no worksheet of the title exists: it is created
AddWorksheetNew(s) == ~ws_exists /\ AddWorksheet(s)

\* sh.add_worksheet(...) when the other session has created the worksheet:
\* APIError, handled by the second sh.worksheet(title)
AddWorksheetDuplicate(s) == ws_exists /\ AddWorksheetRaises(s)

CreateNext ==
    \E s \in Sessions :
        \/ Lookup(s)
        \/ AddWorksheetNew(s)
        \/ AddWorksheetDuplicate(s)
        \/ LookupAgain(s)
        \/ WriteClear(s)
        \/ WriteUpdate(s)
        \/ AppendRead(s)
        \/ AppendHeader(s)
        \/ AppendRow(s)

SpecCreate == CreateInit /\ [][CreateNext]_vars

(***************************************************************************)
(* Startup-level specification: one script run from the login gate to the  *)
(* end of its first store call, on any st.secrets; in this specification   *)
(* job also carries what st.session_state and st.secrets hold for the run  *)
(***************************************************************************)
\* st.secrets["gsheets"]["spreadsheet_id"]: given or absent
SpreadsheetIds == {"given", "absent"}

\* st.secrets["gcp_service_account"]: the key of a service account, absent, or
\* a section without the fields Credentials.from_service_account_info needs
ServiceAccounts == {"given", "absent", "incomplete"}

StartupJobs ==
    { [kind |-> j.kind, columns |-> j.columns, df |-> j.df,
       authenticated |-> a, spreadsheet_id |-> g, service_account |-> c] :
        j \in TableJobs, a \in BOOLEAN, g \in SpreadsheetIds, c \in ServiceAccounts }

StartupInit ==
    /\ \/ ws_exists = FALSE /\ ws_values = <<>>
       \/ ws_exists = TRUE /\ ws_values \in {<<>>, <<CARDS_COLS>>}
    /\ ws_initial = ws_values
    /\ \E j \in StartupJobs : job = [s \in Sessions |-> IF s = Caller THEN j ELSE NoJob]
    /\ pc = [s \in Sessions |-> IF s = Caller THEN "login" ELSE "done"]
    /\ existing = [s \in Sessions |-> <<>>]
    /\ ret = [s \in Sessions |-> NoReturn]
    /\ MatIdle
    /\ AppIdle

\* a login section that lets every run through
LoginGate_NoStop(s) ==
    /\ pc[s] = "login"
    /\ pc' = [pc EXCEPT ![s] = "secrets"]
    /\ UNCHANGED <<ws_exists, ws_values, ws_initial, job, existing, ret>>
    /\ UNCHANGED matVars
    /\ UNCHANGED appVars

\* the login section: st.stop() ends the run of a session that is not
\* authenticated
LoginGate(s) ==
    /\ pc[s] = "login"
    /\ pc' = [pc EXCEPT ![s] = IF job[s].authenticated THEN "secrets" ELSE "stopped"]
    /\ UNCHANGED <<ws_exists, ws_values, ws_initial, job, existing, ret>>
    /\ UNCHANGED matVars
    /\ UNCHANGED appVars

\* secrets read with a default for what is absent: the run goes on
ReadSecrets_Default(s) ==
    /\ pc[s] = "secrets"
    /\ pc' = [pc EXCEPT ![s] = "get_spreadsheet"]
    /\ UNCHANGED <<ws_exists, ws_values, ws_initial, job, existing, ret>>
    /\ UNCHANGED matVars
    /\ UNCHANGED appVars

\* GSHEET_ID = st.secrets["gsheets"]["spreadsheet_id"] and
\* SA_INFO = dict(st.secrets["gcp_service_account"]): an absent key raises
\* KeyError and ends the run; otherwise the script goes on to its first store
\* call
ReadSecrets(s) ==
    /\ pc[s] = "secrets"
    /\ IF job[s].spreadsheet_id = "absent" \/ job[s].service_account = "absent"
       THEN /\ pc' = [pc EXCEPT ![s] = "raised"]
            /\ ret' = [ret EXCEPT ![s].error = "KeyError"]
       ELSE /\ pc' = [pc EXCEPT ![s] = "get_spreadsheet"]
            /\ ret' = ret
    /\ UNCHANGED <<ws_exists, ws_values, ws_initial, job, existing>>
    /\ UNCHANGED matVars
    /\ UNCHANGED appVars

\* get_spreadsheet() at the head of get_or_create_worksheet: gs_client() builds
\* the credentials from SA_INFO, which raises ValueError on a section without
\* the fields of a key; otherwise the spreadsheet is opened by GSHEET_ID
GetSpreadsheet(s) ==
    /\ pc[s] = "get_spreadsheet"
    /\ IF job[s].service_account = "given"
       THEN /\ pc' = [pc EXCEPT ![s] = "lookup"]
            /\ ret' = ret
       ELSE /\ pc' = [pc EXCEPT ![s] = "raised"]
            /\ ret' = [ret EXCEPT ![s].error = "ValueError"]
    /\ UNCHANGED <<ws_exists, ws_values, ws_initial, job, existing>>
    /\ UNCHANGED matVars
    /\ UNCHANGED appVars

StartupNext ==
    \/ LoginGate(Caller)
    \/ ReadSecrets(Caller)
    \/ GetSpreadsheet(Caller)
    \/ Lookup(Caller)
    \/ AddWorksheet(Caller)
    \/ WriteClear(Caller)
    \/ WriteUpdate(Caller)
    \/ AppendRead(Caller)
    \/ AppendHeader(Caller)
    \/ AppendRow(Caller)
    \/ ReadValues(Caller)

SpecStartup == StartupInit /\ [][StartupNext]_vars

(***************************************************************************)
(* Login-level specification: two sessions logging in and out, each run of *)
(* the script from the login gate to the end of its store call; job[s]     *)
(* carries st.session_state of session s (authenticated, current_user),    *)
(* st.secrets (users, password) and what the login form was last submitted *)
(* with                                                                    *)
(***************************************************************************)
Txt_u == <<"u">>
Txt_p == <<"p">>

\* the default of st.secrets.get("app", {}).get("password", ...)
FallbackPassword == <<"a", "b", "1", "9", "0", "4", "2", "7">>

\* st.secrets.get("users", {}): no section, or a table of (username, password)
UserTables == {{}, {<<Txt_u, Txt_p>>, <<Txt_c, <<" ", "q">>>>}}

\* st.secrets app.password: absent or given
AppPasswords == {None, <<"s">>}

\* PASSWORD = st.secrets.get("app", {}).get("password", "ab190427")
PASSWORD(app_password) == IF app_password = None THEN FallbackPassword ELSE app_password

\* has_users = isinstance(USERS, Mapping) and len(USERS) > 0
has_users(users) == users # {}

\* what the login form is submitted with
LoginNames == {<<>>, Txt_u, Txt_c}
LoginPasswords == {<<>>, Txt_p, <<" ", "p", " ">>, <<"q">>, <<"s">>, FallbackPassword}

\* the conditions of the login button: username in USERS and
\* pw.strip() == str(USERS[username]).strip(), or, without users,
\* pw.strip() == str(PASSWORD).strip()
login_ok(users, app_password, username, pw) ==
    IF has_users(users)
    THEN \E e \in users : e[1] = username /\ Strip(pw) = Strip(e[2])
    ELSE Strip(pw) = Strip(PASSWORD(app_password))

\* the store call of the page of a session: session 1 writes, session 2 reads
LoginJob(s) ==
    IF s = 1 THEN [kind |-> "write", columns |-> SIMPLE_COLS, df |-> SessionFrame(1, 1)]
    ELSE [kind |-> "read", columns |-> SIMPLE_COLS, df |-> <<>>]

LoginInit ==
    /\ ws_exists = FALSE
    /\ ws_values = <<>>
    /\ ws_initial = ws_values
    /\ \E users \in UserTables, app_password \in AppPasswords :
          job = [s \in Sessions |->
                   [kind |-> LoginJob(s).kind, columns |-> LoginJob(s).columns,
                    df |-> LoginJob(s).df,
                    authenticated |-> FALSE, current_user |-> <<>>,
                    users |-> users, app_password |-> app_password,
                    spreadsheet_id |-> "given", service_account |-> "given",
                    username |-> <<>>, pw |-> <<>>]]
    /\ pc = [s \in Sessions |-> "login"]
    /\ existing = [s \in Sessions |-> <<>>]
    /\ ret = [s \in Sessions |-> NoReturn]
    /\ MatIdle
    /\ AppIdle

\* the login button on the login page: on matching credentials the session
\* becomes authenticated, current_user is the username (or "me" without users)
\* and st.rerun() starts the next run; otherwise st.error and st.stop()
LoginSubmit(s) ==
    /\ pc[s] = "stopped"
    /\ ~job[s].authenticated
    /\ \E username \in LoginNames, pw \in LoginPasswords :
         /\ ~has_users(job[s].users) => username = <<>>
         /\ IF login_ok(job[s].users, job[s].app_password, username, pw)
            THEN /\ job' = [job EXCEPT ![s].authenticated = TRUE,
                                       ![s].current_user =
                                           IF has_users(job[s].users) THEN username ELSE Me,
                                       ![s].username = username,
                                       ![s].pw = pw]
                 /\ pc' = [pc EXCEPT ![s] = "login"]
            ELSE /\ job' = [job EXCEPT ![s].username = username, ![s].pw = pw]
                 /\ pc' = pc
    /\ UNCHANGED <<ws_exists, ws_values, ws_initial, existing, ret>>
    /\ UNCHANGED matVars
    /\ UNCHANGED appVars

\* do_logout, from the button of the sidebar of a page that was drawn
do_logout(s) ==
    /\ pc[s] = "done"
    /\ job[s].authenticated
    /\ job' = [job EXCEPT ![s].authenticated = FALSE, ![s].current_user = <<>>]
    /\ pc' = [pc EXCEPT ![s] = "login"]
    /\ ret' = [ret EXCEPT ![s] = NoReturn]
    /\ existing' = [existing EXCEPT ![s] = <<>>]
    /\ UNCHANGED <<ws_exists, ws_values, ws_initial>>
    /\ UNCHANGED matVars
    /\ UNCHANGED appVars

\* any other widget of a page that was drawn: the script runs again from the top
WidgetRun(s) ==
    /\ pc[s] = "done"
    /\ pc' = [pc EXCEPT ![s] = "login"]
    /\ ret' = [ret EXCEPT ![s] = NoReturn]
    /\ existing' = [existing EXCEPT ![s] = <<>>]
    /\ UNCHANGED <<ws_exists, ws_values, ws_initial, job>>
    /\ UNCHANGED matVars
    /\ UNCHANGED appVars

LoginNext ==
    \E s \in Sessions :
        \/ LoginGate(s)
        \/ LoginSubmit(s)
        \/ do_logout(s)
        \/ WidgetRun(s)
        \/ ReadSecrets(s)
        \/ GetSpreadsheet(s)
        \/ Lookup(s)
        \/ AddWorksheet(s)
        \/ WriteClear(s)
        \/ WriteUpdate(s)
        \/ ReadValues(s)

SpecLogin == LoginInit /\ [][LoginNext]_vars

(***************************************************************************)
(* Page-level specification: one session pressing the buttons of the page; *)
(* a step is the script run a button starts, up to the end of the rerun it *)
(* asks for                                                                *)
(***************************************************************************)
MaxIds == 2

\* what the entry form is submitted with
EntryInputs ==
    { [date |-> Timestamp(2025, 2, 10), type |-> Income, category |-> FoodCategory,
       amt_str |-> <<"1", ",", "2", "0", "0">>, memo |-> Txt_m] }

SubsLine(merchant, amount_str, day, memo) ==
    [merchant |-> merchant, amount_str |-> amount_str, day |-> day, memo |-> memo]

\* what the subscription editor can hold when the save button is pressed: no
\* line, one line, or two lines whose merchants sanitize to the same key part
Line_N == SubsLine(Txt_N, <<"9", ",", "9", "0", "0">>, Num(31), <<>>)
Line_N2 == SubsLine(<<"N", "!">>, <<"7", "0", "0">>, NaN, Txt_m)

SubsEdits == {<<>>, <<Line_N>>, <<Line_N, Line_N2>>}

\* what the ledger editor can hold: the view as shown, with one box checked, or
\* with another amount in the first line
LedgerEdits(view) ==
    { [i \in 1..Len(view) |-> [view[i] EXCEPT !.delete = (d = i)]] : d \in 0..Len(view) }
    \cup { [i \in 1..Len(view) |->
               IF i = 1 THEN [view[i] EXCEPT !.amount_str = <<"3", ",", "0", "0", "0">>]
               ELSE view[i]] }

\* the first line of the editor typed over in every column the editor lets the
\* user change: another date, type, category and memo, an amount with a sign
Retyped(view) ==
    [view EXCEPT ![1] = [@ EXCEPT !.date = Timestamp(2025, 3, 5), !.type = Income,
                                  !.category = <<"2">>,
                                  !.amount_str = <<"-", "3", ",", "0", "0", "0">>,
                                  !.memo = Txt_abc]]

\* what the ledger editor can hold: the view as shown, with its first line
\* typed over, or as it was built before the last of its rows was stored, and
\* none or one of its boxes checked
LedgerEditsAll(view) ==
    { [i \in 1..Len(v) |-> [v[i] EXCEPT !.delete = (i = d)]] :
        v \in {view, Retyped(view)} \cup
               (IF Len(view) > 1 THEN {SubSeq(view, 1, Len(view) - 1)} ELSE {}),
        d \in 0..Len(view) }

\* what the entry form is submitted with when any amount is typed:
\* with a sign, without a digit
MoneyEntries ==
    { [date |-> Timestamp(2025, 2, 10), type |-> Expense, category |-> FoodCategory,
       amt_str |-> a, memo |-> <<>>] :
        a \in { <<"-", "5", "0", "0">>, Txt_abc } }

\* lines the user adds in the fixed editor
NewFixedLines ==
    { [name |-> Txt_Rent, amount_str |-> <<"8", "0", "0", ",", "0", "0", "0">>,
       day |-> NaN, memo |-> <<>>, src |-> 0],
      [name |-> Txt_N, amount_str |-> Txt_abc, day |-> Num(31), memo |-> Txt_m, src |-> 0] }

\* what the fixed editor can hold: any of the lines of fview kept, the amount of
\* the first kept line changed or not, and at most one added line
FixedEdits(fview) ==
    { LET kept == SelectSeq(fview, LAMBDA e : e.src \in K)
      IN  [i \in 1..Len(kept) |->
              IF i = 1 /\ ch THEN [kept[i] EXCEPT !.amount_str = <<"5">>] ELSE kept[i]]
          \o new
      : K \in SUBSET (1..Len(fview)), ch \in BOOLEAN,
        new \in {<<>>} \cup {<<n>> : n \in NewFixedLines} }

\* the budget editor's frame: category and the budget as money text
BudgetView(bdf) ==
    [i \in 1..Len(bdf) |-> [category |-> bdf[i].category, budget_str |-> money_str(bdf[i].budget)]]

\* what the budget editor can hold when the save button is pressed: the frame
\* as shown, or its first amount typed over
BudgetEdits(bview) ==
    {bview, [bview EXCEPT ![1].budget_str = <<"5", "0", ",", "0", "0", "0">>]}

\* out of save_budget_btn: budget from budget_str, the lines of budget_categories
BudgetOut(edited_bdf) ==
    SelectSeq([i \in 1..Len(edited_bdf) |->
                  [category |-> edited_bdf[i].category,
                   budget |-> Num(to_int_money(edited_bdf[i].budget_str, 0))]],
              LAMBDA r : InCats(budget_categories, r.category))

\* the line the cards editor shows for an empty cards table ("예: OO카드")
CardPlaceholder == [card_name |-> <<"e", "x">>, benefits |-> <<"e", "x">>]

\* what the cards editor can hold when the save button is pressed: the frame as
\* shown, or a line without a name added
CardEdits(view) == {view, Append(view, [card_name |-> <<" ">>, benefits |-> <<"b">>])}

\* what the form of a simple log is submitted with
LogInputs ==
    { [date |-> Timestamp(2025, 2, 10), type |-> Expense,
       amt_str |-> <<"5", "0", ",", "0", "0", "0">>, memo |-> Txt_m] }

\* the grids the script reads
Grids == [fixed |-> fixed_values, subs |-> subs_values, budget |-> budget_values,
          logs |-> simple_values]

\* a script run from the loads of lines 966-970 on, with both month selectors at
\* t: load_fixed, load_card_subs and load_budget_month go through the cache; a
\* loader raising ends the run before any tab is drawn
PageRun(c, g, t) ==
    LET fx == IF c.fixed.hit THEN [raised |-> FALSE, df |-> c.fixed.df]
              ELSE load_fixed(g.fixed)
        c2 == [c EXCEPT !.fixed = [hit |-> TRUE, df |-> fx.df],
                        !.subs = IF c.subs.hit THEN c.subs
                                 ELSE [hit |-> TRUE, df |-> load_card_subs(g.subs)]]
    IN  IF fx.raised THEN [cache |-> c, fdf |-> [shown |-> FALSE, df |-> <<>>]]
        ELSE IF \/ load_simple_money_log(g.logs.events).raised
                \/ load_simple_money_log(g.logs.zeropay).raised
        THEN [cache |-> c2, fdf |-> [shown |-> FALSE, df |-> <<>>]]
        ELSE [cache |-> [c2 EXCEPT !.budget[t] =
                            IF c.budget[t].hit THEN c.budget[t]
                            ELSE [hit |-> TRUE,
                                  df |-> load_budget_month(g.budget, budget_categories,
                                                           t[1], t[2])]],
              fdf |-> [shown |-> TRUE, df |-> fx.df]]

\* a rerun that goes on with the entries st.cache_data holds
Rerun_KeepCache(c, g, t) ==
    \E run \in {PageRun(cache, g, t)} :
        /\ cache' = run.cache
        /\ fdf' = run.fdf

\* clear_cache_and_rerun(msg): the cache is cleared and the script runs again
Rerun(c, g, t) ==
    \E run \in {PageRun(c, g, t)} :
        /\ cache' = run.cache
        /\ fdf' = run.fdf

Done(handler, added, store_op, cleared, msg) ==
    [NoRun EXCEPT !.handler = handler, !.added = added, !.store_op = store_op,
                  !.cleared = cleared, !.msg = msg]

MatUnused == UNCHANGED <<ledger_df, fixed_df, subs_df, selected_year, selected_month, call>>

\* the page as first served on an empty spreadsheet but for one registered card
AppInit ==
    /\ MatIdle
    /\ StoreIdle
    /\ fixed_values = <<>>
    /\ subs_values = <<>>
    /\ cards_values = WriteValues(<<[card_name |-> Txt_c, benefits |-> <<>>]>>, CARDS_COLS)
    /\ budget_values = <<>>
    /\ simple_values = NoLogs
    /\ bcall = NoBudgetCall
    /\ cache = PageRun(NoCache, [Grids EXCEPT !.fixed = <<>>, !.subs = <<>>], Today).cache
    /\ fdf = PageRun(NoCache, [Grids EXCEPT !.fixed = <<>>, !.subs = <<>>], Today).fdf
    /\ last = NoRun

\* a new_row with a key of its own in fixed_key
EntryRow_Keyed(id, e) ==
    LedgerRow(id, DateToText(e.date), e.type, e.category,
              IntToText(to_int_money(e.amt_str, 0)), e.memo, <<"M", "A", "N">>, current_user)

\* new_row of the entry form: every value as str() renders it, fixed_key ""
EntryRow(id, e) ==
    LedgerRow(id, DateToText(e.date), e.type, e.category,
              IntToText(to_int_money(e.amt_str, 0)), e.memo, <<>>, current_user)

\* the entry form of the main tab, which comes before the loads of the page,
\* submitted with one of inputs
LedgerEntrySubmitWith(inputs) ==
    \E e \in inputs :
        LET new_row == EntryRow(uuid4(uuid_next), e)
        IN  /\ uuid_next < MaxIds
            /\ ledger_values' = ws_append_row(ledger_values, new_row, LEDGER_COLS)
            /\ uuid_next' = uuid_next + 1
            /\ Rerun(NoCache, Grids, Today)
            /\ last' = [Done("ledger_add", 0, "append", TRUE, "success")
                          EXCEPT !.edited = <<e>>]
            /\ UNCHANGED <<fixed_values, subs_values, cards_values, budget_values, simple_values, bcall>>
            /\ MatUnused
            /\ UNCHANGED storeVars

LedgerEntrySubmit == LedgerEntrySubmitWith(EntryInputs)

\* apply_fixed_btn_main for a selected month
ApplyFixedBtn ==
    \E t \in AppTargets : \E run \in {PageRun(cache, Grids, t)} :
        \E r \in {apply_fixed_to_ledger_for_month(load_ledger(ledger_values), run.cache.fixed.df,
                        t[1], t[2], current_user, uuid_next)} :
            \E o \in {ApplyOutcome(ledger_values, r)} :
                /\ fdf.shown /\ run.fdf.shown
                /\ ~r.raised
                /\ uuid_next + r.added <= MaxIds
                /\ ledger_values' = o.values
                /\ uuid_next' = uuid_next + r.added
                /\ Rerun(IF o.cleared THEN NoCache ELSE run.cache, Grids, t)
                /\ last' = Done("apply_fixed_btn_main", r.added, o.store_op, o.cleared, o.msg)
                /\ UNCHANGED <<fixed_values, subs_values, cards_values, budget_values, simple_values, bcall>>
                /\ MatUnused
                /\ UNCHANGED storeVars

\* apply_subs_btn_main for a selected month
ApplySubsBtn ==
    \E t \in AppTargets : \E run \in {PageRun(cache, Grids, t)} :
        \E r \in {apply_subs_to_ledger_for_month(load_ledger(ledger_values), run.cache.subs.df,
                        t[1], t[2], current_user, uuid_next)} :
            \E o \in {ApplyOutcome(ledger_values, r)} :
                /\ fdf.shown /\ run.fdf.shown
                /\ ~r.raised
                /\ uuid_next + r.added <= MaxIds
                /\ ledger_values' = o.values
                /\ uuid_next' = uuid_next + r.added
                /\ Rerun(IF o.cleared THEN NoCache ELSE run.cache, Grids, t)
                /\ last' = Done("apply_subs_btn_main", r.added, o.store_op, o.cleared, o.msg)
                /\ UNCHANGED <<fixed_values, subs_values, cards_values, budget_values, simple_values, bcall>>
                /\ MatUnused
                /\ UNCHANGED storeVars

\* ledger_save on the editor of a selected month that has rows; any_edit: the
\* editor holds any of LedgerEditsAll and last keeps what it held and the grid
\* the handler started on, else the editor holds one of LedgerEdits
LedgerSaveOn(any_edit) ==
    \E t \in AppTargets : \E run \in {PageRun(cache, Grids, t)},
       ledger \in {load_ledger(ledger_values)} :
        \E view \in {LedgerView(month_ledger(ledger, t[1], t[2]))} :
            /\ fdf.shown /\ run.fdf.shown
            /\ Len(view) > 0
            /\ \E edited \in (IF any_edit THEN LedgerEditsAll(view) ELSE LedgerEdits(view)) :
                  /\ ledger_values' = save_ledger(ledger_values, ledger_save(ledger, edited))
                  /\ last' = IF any_edit
                             THEN [Done("ledger_save", 0, "write", TRUE, "success")
                                     EXCEPT !.edited = edited, !.before = ledger_values]
                             ELSE Done("ledger_save", 0, "write", TRUE, "success")
            /\ Rerun(NoCache, Grids, t)
            /\ UNCHANGED <<uuid_next, fixed_values, subs_values, cards_values, budget_values, simple_values, bcall>>
            /\ MatUnused
            /\ UNCHANGED storeVars

LedgerSave == LedgerSaveOn(FALSE)

\* ledger_delete on the editor of a selected month that has rows: a warning when
\* no box is checked; any_edit as in LedgerSaveOn
LedgerDeleteOn(any_edit) ==
    \E t \in AppTargets : \E run \in {PageRun(cache, Grids, t)},
       ledger \in {load_ledger(ledger_values)} :
        \E view \in {LedgerView(month_ledger(ledger, t[1], t[2]))} :
            /\ fdf.shown /\ run.fdf.shown
            /\ Len(view) > 0
            /\ \E edited \in (IF any_edit THEN LedgerEditsAll(view) ELSE LedgerEdits(view)) :
                  IF DeleteIds(edited) = {}
                  THEN /\ ledger_values' = ledger_values
                       /\ cache' = run.cache
                       /\ fdf' = run.fdf
                       /\ last' = [Done("ledger_delete", 0, "none", FALSE, "warning")
                                     EXCEPT !.edited = IF any_edit THEN edited ELSE <<>>]
                  ELSE /\ ledger_values' = save_ledger(ledger_values, ledger_delete(ledger, edited))
                       /\ Rerun(NoCache, Grids, t)
                       /\ last' = [Done("ledger_delete", 0, "write", TRUE, "success")
                                     EXCEPT !.edited = IF any_edit THEN edited ELSE <<>>]
            /\ UNCHANGED <<uuid_next, fixed_values, subs_values, cards_values, budget_values, simple_values, bcall>>
            /\ MatUnused
            /\ UNCHANGED storeVars

LedgerDelete == LedgerDeleteOn(FALSE)

\* fixed_save on the fixed editor: fdf is what load_fixed gave, or the placeholder
\* line with a new identifier when that is empty
FixedSave ==
    \E run \in {PageRun(cache, Grids, Today)} :
        LET empty == Len(run.fdf.df) = 0
            frame == IF empty THEN <<FixedPlaceholder(uuid4(uuid_next))>> ELSE run.fdf.df
            uid == IF empty THEN uuid_next + 1 ELSE uuid_next
            original_ids == [i \in 1..Len(frame) |-> frame[i].fixed_id]
        IN  /\ fdf.shown /\ run.fdf.shown
            /\ \E edited_fixed \in FixedEdits(FixedView(frame)) :
                  /\ uid + FixedIdsDrawn(original_ids, edited_fixed) <= MaxIds
                  /\ fixed_values' = save_fixed(fixed_values,
                                                fixed_save(original_ids, edited_fixed, uid))
                  /\ uuid_next' = uid + FixedIdsDrawn(original_ids, edited_fixed)
                  /\ last' = [Done("fixed_save", 0, "write", TRUE, "success")
                                EXCEPT !.original_ids = original_ids, !.edited = edited_fixed]
            /\ Rerun(NoCache, [Grids EXCEPT !.fixed = fixed_values'], Today)
            /\ UNCHANGED <<ledger_values, subs_values, cards_values, budget_values, simple_values, bcall>>
            /\ MatUnused
            /\ UNCHANGED storeVars

\* save_subs_no_active for a registered card
SaveSubs ==
    \E run \in {PageRun(cache, Grids, Today)},
       cards_df \in {load_cards(cards_values)} :
        /\ fdf.shown /\ run.fdf.shown
        /\ \E k \in 1..Len(cards_df), edited \in SubsEdits :
              subs_values' = save_card_subs(subs_values,
                                 save_subs(run.cache.subs.df, cards_df[k].card_name, edited))
        /\ Rerun(NoCache, [Grids EXCEPT !.subs = subs_values'], Today)
        /\ last' = Done("save_subs_no_active", 0, "write", TRUE, "success")
        /\ UNCHANGED <<ledger_values, uuid_next, fixed_values, cards_values, budget_values, simple_values, bcall>>
        /\ MatUnused
        /\ UNCHANGED storeVars

\* save_budget_btn of the budget tab for the month of its selector
SaveBudget ==
    \E t \in {Today} : \E run \in {PageRun(cache, Grids, t)} :
        /\ fdf.shown /\ run.fdf.shown
        /\ \E edited_bdf \in BudgetEdits(BudgetView(run.cache.budget[t].df)) :
              budget_values' = save_budget_month(budget_values, BudgetOut(edited_bdf), t[1], t[2])
        /\ Rerun(NoCache, [Grids EXCEPT !.budget = budget_values'], t)
        /\ last' = Done("save_budget_btn", 0, "write", TRUE, "success")
        /\ UNCHANGED <<ledger_values, uuid_next, fixed_values, subs_values, cards_values,
                       simple_values, bcall>>
        /\ MatUnused
        /\ UNCHANGED storeVars

\* save_cards_btn of the card tab
SaveCards ==
    \E run \in {PageRun(cache, Grids, Today)}, cards_df \in {load_cards(cards_values)} :
        /\ fdf.shown /\ run.fdf.shown
        /\ \E edited_cards \in CardEdits(IF Len(cards_df) = 0 THEN <<CardPlaceholder>>
                                          ELSE cards_df) :
              cards_values' = save_cards(cards_values, edited_cards)
        /\ Rerun(NoCache, Grids, Today)
        /\ last' = Done("save_cards_btn", 0, "write", TRUE, "success")
        /\ UNCHANGED <<ledger_values, uuid_next, fixed_values, subs_values, budget_values,
                       simple_values, bcall>>
        /\ MatUnused
        /\ UNCHANGED storeVars

\* the form of simple_log_tab submitted on the events or the zeropay tab
SimpleLogAdd ==
    \E w \in {"events", "zeropay"}, e \in LogInputs, run \in {PageRun(cache, Grids, Today)} :
        LET new_row == [id |-> uuid4(uuid_next), date |-> DateToText(e.date), type |-> e.type,
                        amount |-> IntToText(to_int_money(e.amt_str, 0)), memo |-> e.memo,
                        user |-> current_user]
        IN  /\ fdf.shown /\ run.fdf.shown
            /\ uuid_next < MaxIds
            /\ simple_values' = [simple_values EXCEPT
                                    ![w] = ws_append_row(simple_values[w], new_row, SIMPLE_COLS)]
            /\ uuid_next' = uuid_next + 1
            /\ Rerun(NoCache, [Grids EXCEPT !.logs = simple_values'], Today)
            /\ last' = Done("simple_log_add", 0, "append", TRUE, "success")
            /\ UNCHANGED <<ledger_values, fixed_values, subs_values, cards_values, budget_values,
                           bcall>>
            /\ MatUnused
            /\ UNCHANGED storeVars

\* the entries of st.cache_data, stored in the same script run, reach their ttl
\* of 60 seconds
CacheExpire ==
    /\ cache # NoCache
    /\ cache' = NoCache
    /\ UNCHANGED <<fixed_values, subs_values, cards_values, budget_values, simple_values, fdf, last,
                   bcall>>
    /\ UNCHANGED matVars
    /\ UNCHANGED storeVars

AppNext ==
    \/ LedgerEntrySubmit
    \/ ApplyFixedBtn
    \/ ApplySubsBtn
    \/ LedgerSave
    \/ LedgerDelete
    \/ FixedSave
    \/ SaveSubs
    \/ CacheExpire

SpecApp == AppInit /\ [][AppNext]_vars

\* the page with the buttons of the budget, card, events and zeropay tabs as well
PageNext ==
    \/ AppNext
    \/ SaveBudget
    \/ SaveCards
    \/ SimpleLogAdd

SpecPage == AppInit /\ [][PageNext]_vars

(***************************************************************************)
(* Ledger-level specification: one session and no other writer, on a       *)
(* ledger that holds rows, using the entry form with any amount, the       *)
(* ledger editor with any edit, both delete paths and both apply buttons;  *)
(* the ws.update of an edit-save may raise                                 *)
(***************************************************************************)
\* ledgers the worksheet holds when the session starts: none; a row of the
\* user in 2025-02 and a row of another user in 2025-03
StoredLedgers ==
    { <<>>,
      <<ManualRow(2025, 2),
        LedgerRow(<<"e">>, Timestamp(2025, 3, 1), Expense, <<"3">>, 700, <<>>, <<>>, Other)>> }

\* the page as first served on a spreadsheet that holds a ledger, one registered
\* card and one subscription rule of that card
LedgerInit ==
    /\ StoreIdle
    /\ \E f \in StoredLedgers : ledger_values = IF f = <<>> THEN <<>> ELSE save_ledger(<<>>, f)
    /\ ledger_df = <<>>
    /\ fixed_df = <<>>
    /\ subs_df = <<>>
    /\ selected_year = 2025
    /\ selected_month = 1
    /\ uuid_next = 0
    /\ call = NoCall
    /\ fixed_values = <<>>
    /\ subs_values = save_card_subs(<<>>, <<SubsRule(Txt_c, Txt_N, Num(9900), Num(31), <<>>)>>)
    /\ cards_values = WriteValues(<<[card_name |-> Txt_c, benefits |-> <<>>]>>, CARDS_COLS)
    /\ budget_values = <<>>
    /\ simple_values = NoLogs
    /\ bcall = NoBudgetCall
    /\ cache = PageRun(NoCache, [Grids EXCEPT !.fixed = <<>>], Today).cache
    /\ fdf = PageRun(NoCache, [Grids EXCEPT !.fixed = <<>>], Today).fdf
    /\ last = NoRun

EntrySubmitAnyAmount == LedgerEntrySubmitWith(MoneyEntries)

LedgerSaveAnyEdit == LedgerSaveOn(TRUE)

LedgerDeleteAnyEdit == LedgerDeleteOn(TRUE)

\* ledger_save with the ws.update(values) of save_ledger raising: ws.clear() has
\* returned, the exception ends the script run before clear_cache_and_rerun
LedgerSaveUpdateRaises ==
    \E t \in AppTargets : \E run \in {PageRun(cache, Grids, t)},
       ledger \in {load_ledger(ledger_values)} :
        \E view \in {LedgerView(month_ledger(ledger, t[1], t[2]))} :
            /\ fdf.shown /\ run.fdf.shown
            /\ Len(view) > 0
            /\ \E edited \in LedgerEdits(view) :
                  last' = [Done("ledger_save", 0, "write", FALSE, "error")
                             EXCEPT !.edited = edited, !.before = ledger_values]
            /\ ledger_values' = ws_clear(ledger_values)
            /\ cache' = run.cache
            /\ fdf' = run.fdf
            /\ UNCHANGED <<uuid_next, fixed_values, subs_values, cards_values, budget_values, simple_values, bcall>>
            /\ MatUnused
            /\ UNCHANGED storeVars

LedgerNext ==
    \/ EntrySubmitAnyAmount
    \/ LedgerSaveAnyEdit
    \/ LedgerSaveUpdateRaises
    \/ LedgerDeleteAnyEdit
    \/ ApplyFixedBtn
    \/ ApplySubsBtn

SpecLedger == LedgerInit /\ [][LedgerNext]_vars

(***************************************************************************)
(* User-level specification: a session logged in under any name entering   *)
(* ledger rows and log rows, calling the materializer of the fixed rules on *)
(* the ledger frame it holds, pressing the subscription button and saving  *)
(* the ledger editor                                                       *)
(***************************************************************************)
\* st.session_state.current_user of an authenticated session: "me", a name of
\* the user table, a name stored with a space before it, a blank name
SessionUsers == {Me, Other, <<" ", "u">>, <<" ">>}

UserInit ==
    /\ ws_exists = FALSE
    /\ ws_values = <<>>
    /\ ws_initial = <<>>
    /\ \E u \in SessionUsers : job = <<[current_user |-> u]>>
    /\ pc = <<>>
    /\ existing = <<>>
    /\ ret = <<>>
    /\ ledger_values = save_ledger(<<>>, <<ManualRow(2025, 2)>>)
    /\ ledger_df = load_ledger(ledger_values)
    /\ fixed_df = <<FixedRule(Txt_f1, Txt_Rent, Num(800000), Num(31), <<>>)>>
    /\ subs_df = <<>>
    /\ selected_year = 2025
    /\ selected_month = 2
    /\ uuid_next = 0
    /\ call = NoCall
    /\ fixed_values = <<>>
    /\ subs_values = save_card_subs(<<>>, <<SubsRule(Txt_c, Txt_N, Num(9900), Num(31), <<>>)>>)
    /\ cards_values = WriteValues(<<[card_name |-> Txt_c, benefits |-> <<>>]>>, CARDS_COLS)
    /\ budget_values = <<>>
    /\ simple_values = NoLogs
    /\ bcall = NoBudgetCall
    /\ cache = PageRun(NoCache, [Grids EXCEPT !.fixed = <<>>], Today).cache
    /\ fdf = PageRun(NoCache, [Grids EXCEPT !.fixed = <<>>], Today).fdf
    /\ last = NoRun

UserNext ==
    \/ LedgerEntrySubmit
    \/ SimpleLogAdd
    \/ CallApplyFixed
    \/ ApplySubsBtn
    \/ LedgerSaveAnyEdit

SpecUser == UserInit /\ [][UserNext]_vars

(***************************************************************************)
(* Money-level specification: to_int_money called on drawn arguments, and  *)
(* the entry form of the page submitted with amounts that are not numbers  *)
(***************************************************************************)
MaxAmountLen == 2

\* the characters amounts are typed with: digits, the separator, the sign, a
\* letter and a blank
MoneyChars == {"1", "0", ",", "-", "a", " "}

\* the arguments of to_int_money: None, every text of up to MaxAmountLen of
\* these characters, and longer amounts with separators, a unit or a sign
MoneyArgs ==
    {None} \cup SeqsUpTo(MoneyChars, MaxAmountLen)
    \cup { <<"1", "-", "1">>, <<"-", "1", "0">>, <<"-", "-", "1">>, <<"1", " ", "0">>,
           <<"1", ",", "2", "0", "0">>, <<"1", "2", ",", "0", "0", "0">>,
           <<"1", ",", "0", "0", "0", ",", "0", "0", "0">>, <<" ", "1", "2", "0", "0", " ">>,
           <<"1", ",", "2", "0", "0", "a">>, <<"-", "1", ",", "2", "0", "0">> }

\* to_int_money(x, 0)
CallToIntMoney ==
    /\ \E x \in MoneyArgs :
          bcall' = [NoBudgetCall EXCEPT !.op = "to_int_money", !.rows = x,
                                       !.result = to_int_money(x, 0), !.n = 1]
    /\ UNCHANGED <<fixed_values, subs_values, cards_values, budget_values, simple_values, cache,
                   fdf, last>>
    /\ UNCHANGED matVars
    /\ UNCHANGED storeVars

MoneyNext == CallToIntMoney \/ EntrySubmitAnyAmount

SpecMoney == AppInit /\ [][MoneyNext]_vars

(***************************************************************************)
(* Budget-level specification: load_budget_month, save_budget_month and    *)
(* the budget status of the main tab called on drawn tables and ledgers    *)
(***************************************************************************)
MaxBudgetCalls == 2

\* a stored line of budgets_monthly as the app writes it
BudgetLine(year, month, category, budget) ==
    [year |-> IntToText(year), month |-> IntToText(month), category |-> category,
     budget |-> IntToText(budget)]

\* tables save_budget_month has written: rows of the other month only; rows of
\* both months and of another year, those of 2025-02 partial and out of order; a
\* row of the fixed category; and a table two overlapping writes of 2025-02 have
\* left, its first category stored twice
StoredBudgets ==
    { <<>>,
      <<BudgetLine(2025, 3, FoodCategory, 300000), BudgetLine(2025, 3, <<"3">>, 7)>>,
      <<BudgetLine(2025, 2, <<"3">>, 50000), BudgetLine(2025, 2, FoodCategory, 1200),
        BudgetLine(2025, 3, FoodCategory, 300000), BudgetLine(2024, 2, FoodCategory, 9)>>,
      <<BudgetLine(2025, 2, FIXED_CATEGORY, 5), BudgetLine(2025, 2, FoodCategory, 1000)>>,
      <<BudgetLine(2025, 2, FoodCategory, 1000), BudgetLine(2025, 2, <<"2">>, 0),
        BudgetLine(2025, 2, FoodCategory, 2000)>> }

\* the budgets_monthly worksheet: missing or empty, or a written table
BudgetGrids == {<<>>} \cup {WriteValues(b, BUDGET_COLS) : b \in StoredBudgets}

\* frames handed to save_budget_month: none, configured categories, and a frame
\* with a padded category, an unknown one and the fixed category
SuppliedRows ==
    { <<>>,
      <<[category |-> FoodCategory, budget |-> Num(50000)],
        [category |-> <<"2">>, budget |-> Num(0)]>>,
      <<[category |-> <<" ", "3", " ">>, budget |-> Num(7)],
        [category |-> <<"z", "z">>, budget |-> Num(1)],
        [category |-> FIXED_CATEGORY, budget |-> Str(<<"5">>)]>> }

\* ledgers: the manual expense of the month; with it an expense of another user,
\* an income, a fixed and a lump-sum expense, an expense of the next month and
\* one above its budget
LedgerFrames ==
    { <<>>,
      <<ManualRow(2025, 2)>>,
      <<LedgerRow(<<"b">>, Timestamp(2025, 2, 10), Expense, FoodCategory, 800, <<>>, <<>>, Other),
        LedgerRow(<<"e">>, Timestamp(2025, 3, 1), Expense, FoodCategory, 700, <<>>, <<>>, Me)>>,
      <<ManualRow(2025, 2),
        LedgerRow(<<"b">>, Timestamp(2025, 2, 10), Expense, FoodCategory, 800, <<>>, <<>>, Other),
        LedgerRow(<<"c">>, Timestamp(2025, 2, 11), Income, FoodCategory, 5000, <<>>, <<>>, Me),
        LedgerRow(<<"d">>, Timestamp(2025, 2, 28), Expense, FIXED_CATEGORY, 800000, <<>>, <<>>, Me),
        LedgerRow(<<"e">>, Timestamp(2025, 3, 1), Expense, FoodCategory, 700, <<>>, <<>>, Me),
        LedgerRow(<<"f">>, Timestamp(2025, 2, 5), Expense, LUMPSUM_CATEGORY, 100, <<>>, <<>>, Me),
        LedgerRow(<<"g">>, Timestamp(2025, 2, 6), Expense, <<"3">>, 60000, <<>>, <<>>, Me)>> }

BudgetInit ==
    /\ budget_values \in BudgetGrids
    /\ \E f \in LedgerFrames : ledger_values = IF f = <<>> THEN <<>> ELSE save_ledger(<<>>, f)
    /\ bcall = NoBudgetCall
    /\ ledger_df = <<>>
    /\ fixed_df = <<>>
    /\ subs_df = <<>>
    /\ selected_year = 2025
    /\ selected_month = 1
    /\ uuid_next = 0
    /\ call = NoCall
    /\ fixed_values = <<>>
    /\ subs_values = <<>>
    /\ cards_values = <<>>
    /\ simple_values = NoLogs
    /\ cache = NoCache
    /\ fdf = [shown |-> FALSE, df |-> <<>>]
    /\ last = NoRun
    /\ StoreIdle

BudgetUnused ==
    /\ UNCHANGED <<fixed_values, subs_values, cards_values, simple_values, cache, fdf, last>>
    /\ UNCHANGED <<ledger_df, fixed_df, subs_df, selected_year, selected_month, ledger_values,
                   uuid_next, call>>
    /\ UNCHANGED storeVars

\* load_budget_month(budget_categories, year, month), its cache empty
CallLoadBudget ==
    /\ bcall.n < MaxBudgetCalls
    /\ \E t \in AppTargets :
          bcall' = [NoBudgetCall EXCEPT
                      !.op = "load", !.year = t[1], !.month = t[2], !.before = budget_values,
                      !.result = load_budget_month(budget_values, budget_categories, t[1], t[2]),
                      !.n = bcall.n + 1]
    /\ UNCHANGED budget_values
    /\ BudgetUnused

\* save_budget_month(bdf_month, year, month)
CallSaveBudget ==
    /\ bcall.n < MaxBudgetCalls
    /\ \E t \in AppTargets, bdf_month \in SuppliedRows :
          /\ budget_values' = save_budget_month(budget_values, bdf_month, t[1], t[2])
          /\ bcall' = [NoBudgetCall EXCEPT
                         !.op = "save", !.year = t[1], !.month = t[2], !.rows = bdf_month,
                         !.before = budget_values, !.n = bcall.n + 1]
    /\ BudgetUnused

\* the budget status of the main tab for a selected month, the "only mine" box
\* checked or not
CallBudgetStatus ==
    /\ bcall.n < MaxBudgetCalls
    /\ \E t \in AppTargets, show_only_mine \in BOOLEAN :
          bcall' = [NoBudgetCall EXCEPT
                      !.op = "status", !.year = t[1], !.month = t[2],
                      !.only_mine = show_only_mine, !.before = budget_values,
                      !.result = budget_status(load_ledger(ledger_values),
                                     load_budget_month(budget_values, budget_categories,
                                                       t[1], t[2]),
                                     t[1], t[2], show_only_mine, current_user),
                      !.n = bcall.n + 1]
    /\ UNCHANGED budget_values
    /\ BudgetUnused

BudgetNext == CallLoadBudget \/ CallSaveBudget \/ CallBudgetStatus

SpecBudget == BudgetInit /\ [][BudgetNext]_vars

(***************************************************************************)
(* Budget sessions: two sessions, each calling save_budget_month up to     *)
(* MaxSaves times on a budgets_monthly table that starts empty, one remote *)
(* call per step                                                           *)
(***************************************************************************)
MaxSaves == 2

\* the frame session s hands to save_budget_month: the budget editor's rows, one
\* per budget category, with the amounts of that session
SessionBudget(s) ==
    [k \in 1..Len(budget_categories) |->
        [category |-> budget_categories[k], budget |-> Num(1000 * s)]]

\* a session between two calls: n counts its save_budget_month calls so far
BetweenSaves(n) == [kind |-> "none", columns |-> BUDGET_COLS, df |-> <<>>, year |-> 0, month |-> 0,
                    n |-> n]

BudgetSessionsInit ==
    /\ ws_exists = TRUE
    /\ ws_values \in {<<>>, <<BUDGET_COLS>>}
    /\ ws_initial = ws_values
    /\ job = [s \in Sessions |-> BetweenSaves(0)]
    /\ pc = [s \in Sessions |-> "done"]
    /\ existing = [s \in Sessions |-> <<>>]
    /\ ret = [s \in Sessions |-> NoReturn]
    /\ MatIdle
    /\ AppIdle

\* save_budget_month(bdf_month, year, month) is entered: out_month is built and
\* ws_read_df("budgets_monthly", BUDGET_COLS) looks the worksheet up
SaveBudgetEnter(s) ==
    /\ pc[s] = "done"
    /\ job[s].n < MaxSaves
    /\ \E t \in AppTargets :
          job' = [job EXCEPT ![s] = [kind |-> "save_budget", columns |-> BUDGET_COLS,
                                     df |-> SessionBudget(s), year |-> t[1], month |-> t[2],
                                     n |-> job[s].n + 1]]
    /\ pc' = [pc EXCEPT ![s] = "lookup"]
    /\ UNCHANGED <<ws_exists, ws_values, ws_initial, existing, ret>>
    /\ UNCHANGED matVars
    /\ UNCHANGED appVars

\* save_budget_month: ws_read_df returns bdf_all from get_all_values, the rows of
\* the target month are removed, merged is built and handed to ws_write_df
SaveBudgetRead(s) ==
    /\ pc[s] = "get_all_values"
    /\ job[s].kind = "save_budget"
    /\ job' = [job EXCEPT ![s].kind = "write",
                          ![s].df = BudgetOthers(ws_values, job[s].year, job[s].month)
                                    \o OutMonth(job[s].df, job[s].year, job[s].month)]
    /\ pc' = [pc EXCEPT ![s] = "lookup"]
    /\ UNCHANGED <<ws_exists, ws_values, ws_initial, existing, ret>>
    /\ UNCHANGED matVars
    /\ UNCHANGED appVars

BudgetSessionsNext ==
    \E s \in Sessions :
        \/ SaveBudgetEnter(s)
        \/ Lookup(s)
        \/ SaveBudgetRead(s)
        \/ WriteClear(s)
        \/ WriteUpdate(s)

SpecBudgetSessions == BudgetSessionsInit /\ [][BudgetSessionsNext]_vars

(***************************************************************************)
(* Overlap: a session that reads budgets_monthly, with ws_read_df alone or *)
(* as the first step of save_budget_month, while another session writes it *)
(* with ws_write_df, one remote call per step                              *)
(***************************************************************************)
Reader == 1

Writer == 2

\* what budgets_monthly holds before the two calls: rows of 2025-03, and rows of
\* both months and of another year
OverlapGrids ==
    { WriteValues(b, BUDGET_COLS) :
        b \in { <<BudgetLine(2025, 3, FoodCategory, 300000), BudgetLine(2025, 3, <<"3">>, 7)>>,
                <<BudgetLine(2025, 2, <<"3">>, 50000), BudgetLine(2025, 2, FoodCategory, 1200),
                  BudgetLine(2025, 3, FoodCategory, 300000),
                  BudgetLine(2024, 2, FoodCategory, 9)>> } }

\* the calls of the reader: ws_read_df, or save_budget_month for a month
ReaderJobs ==
    { [kind |-> "read", columns |-> BUDGET_COLS, df |-> <<>>, year |-> 0, month |-> 0, n |-> 0] }
    \cup { [kind |-> "save_budget", columns |-> BUDGET_COLS, df |-> SessionBudget(Reader),
            year |-> t[1], month |-> t[2], n |-> 1] : t \in AppTargets }

\* the ws_write_df call of the writer: the merged frame its save_budget_month
\* built for a month from the table as it was
WriterJobs(grid) ==
    { [kind |-> "write", columns |-> BUDGET_COLS,
       df |-> BudgetOthers(grid, t[1], t[2]) \o OutMonth(SessionBudget(Writer), t[1], t[2]),
       year |-> t[1], month |-> t[2], n |-> 1] : t \in AppTargets }

OverlapInit ==
    /\ ws_exists = TRUE
    /\ ws_values \in OverlapGrids
    /\ ws_initial = ws_values
    /\ \E r \in ReaderJobs : \E w \in WriterJobs(ws_values) :
          job = [s \in Sessions |-> IF s = Reader THEN r ELSE w]
    /\ pc = [s \in Sessions |-> "lookup"]
    /\ existing = [s \in Sessions |-> <<>>]
    /\ ret = [s \in Sessions |-> NoReturn]
    /\ MatIdle
    /\ AppIdle

OverlapNext ==
    \/ ReadValues(Reader)
    \/ SaveBudgetRead(Reader)
    \/ \E s \in Sessions :
          \/ Lookup(s)
          \/ WriteClear(s)
          \/ WriteUpdate(s)

SpecOverlap == OverlapInit /\ [][OverlapNext]_vars

(***************************************************************************)
(* The fixed tab on a table of stored rules: the editor built from the     *)
(* frame load_fixed is written to return for the table (its typed columns; *)
(* the KeyError of line 760 aside), and the save button pressed once       *)
(***************************************************************************)
MaxFixedRows == 2

StoredFixedRules ==
    { FixedRule(Txt_f1, Txt_Rent, Num(800000), Num(31), <<>>),
      FixedRule(Txt_f2, Txt_N, Num(5), Num(15), Txt_m),
      FixedRule(<<"f", "3">>, Txt_abc, Num(0), Num(1), <<>>) }

\* tables of one to MaxFixedRows stored rules with distinct fixed_id
StoredFixedFrames ==
    { f \in SeqsUpTo(StoredFixedRules, MaxFixedRows) :
        Len(f) > 0 /\ \A i, j \in 1..Len(f) : i # j => f[i].fixed_id # f[j].fixed_id }

FixedTabInit ==
    /\ MatIdle
    /\ StoreIdle
    /\ \E f \in StoredFixedFrames :
          /\ fixed_values = save_fixed(<<>>, f)
          /\ cache = [NoCache EXCEPT !.fixed = [hit |-> TRUE, df |-> f],
                                     !.subs = [hit |-> TRUE, df |-> <<>>]]
          /\ fdf = [shown |-> TRUE, df |-> f]
    /\ subs_values = <<>>
    /\ cards_values = <<>>
    /\ budget_values = <<>>
    /\ simple_values = NoLogs
    /\ bcall = NoBudgetCall
    /\ last = NoRun

SpecFixedTab == FixedTabInit /\ [][FixedSave]_vars

(***************************************************************************)
(* The subscription editor of the card tab on a table that holds the       *)
(* subscriptions of two cards: the save button pressed for either card     *)
(***************************************************************************)
MaxSubsLines == 2

Txt_d == <<"d">>

\* what card_subscriptions holds when the session starts: nothing, or rules of
\* both cards, those of the first card apart
StoredSubsTables ==
    { <<>>,
      <<SubsRule(Txt_c, Txt_N, Num(9900), Num(31), <<>>),
        SubsRule(Txt_d, Txt_N, Num(500), Num(3), Txt_m),
        SubsRule(Txt_c, Txt_abc, Num(700), Num(1), <<>>)>> }

\* the placeholder line shown for a card without subscriptions ("예: 넷플릭스")
SubsPlaceholder == SubsLine(<<"e", ":", " ", "N">>, money_str(0), Num(1), <<>>)

\* view of the subscription editor: the rules of the selected card, the amount
\* as money_str renders it, or the placeholder line
SubsView(card_only) ==
    IF Len(card_only) = 0 THEN <<SubsPlaceholder>>
    ELSE [i \in 1..Len(card_only) |->
             SubsLine(card_only[i].merchant, money_str(card_only[i].amount.n),
                      card_only[i].day, card_only[i].memo)]

\* what the subscription editor can hold: the view as shown, with its first
\* line typed over, with its last line removed, or with a line added that has
\* a merchant or a blank one
SubsEditsAll(view) ==
    { view,
      [view EXCEPT ![1] = [@ EXCEPT !.amount_str = <<"1", ",", "2", "0", "0">>, !.day = NaN]],
      SubSeq(view, 1, Len(view) - 1),
      Append(view, Line_N2),
      Append(view, SubsLine(<<" ">>, <<"5">>, Num(1), Txt_m)) }

SubsTabInit ==
    /\ MatIdle
    /\ StoreIdle
    /\ fixed_values = <<>>
    /\ \E f \in StoredSubsTables :
          subs_values = IF f = <<>> THEN <<>> ELSE save_card_subs(<<>>, f)
    /\ cards_values = WriteValues(<<[card_name |-> Txt_c, benefits |-> <<>>],
                                    [card_name |-> Txt_d, benefits |-> <<>>]>>, CARDS_COLS)
    /\ budget_values = <<>>
    /\ simple_values = NoLogs
    /\ bcall = NoBudgetCall
    /\ cache = PageRun(NoCache, Grids, Today).cache
    /\ fdf = PageRun(NoCache, Grids, Today).fdf
    /\ last = NoRun

\* save_subs_no_active for either registered card with anything the editor can
\* hold, up to MaxSubsLines lines; last keeps the card and the editor's frame
SaveSubsAnyEdit ==
    \E run \in {PageRun(cache, Grids, Today)},
       cards_df \in {load_cards(cards_values)} :
        /\ fdf.shown /\ run.fdf.shown
        /\ \E k \in 1..Len(cards_df) : \E card \in {cards_df[k].card_name} :
              \E edited \in SubsEditsAll(SubsView(SelectSeq(run.cache.subs.df,
                                              LAMBDA r : r.card_name = card))) :
                  /\ Len(edited) <= MaxSubsLines
                  /\ subs_values' = save_card_subs(subs_values,
                                         save_subs(run.cache.subs.df, card, edited))
                  /\ last' = [Done("save_subs_no_active", 0, "write", TRUE, "success")
                                EXCEPT !.edited = edited, !.selected_card = card]
        /\ Rerun(NoCache, [Grids EXCEPT !.subs = subs_values'], Today)
        /\ UNCHANGED <<ledger_values, uuid_next, fixed_values, cards_values, budget_values, simple_values, bcall>>
        /\ MatUnused
        /\ UNCHANGED storeVars

SpecSubsTab == SubsTabInit /\ [][SaveSubsAnyEdit]_vars

(***************************************************************************)
(* Claims on the materializer functions (SpecMat)                          *)
(***************************************************************************)
NonBlank(s) == \E i \in 1..Len(s) : ~IsSpace(s[i])

\* the year-month as the six digits of year * 100 + month
YearMonthText == NatToText(selected_year * 100 + selected_month)

KeysOf(df) == {df[i].fixed_key : i \in 1..Len(df)}

ExpectedFixedKey(r) == <<"F", "I", "X", "_">> \o r.fixed_id \o <<"_">> \o YearMonthText

FixedEligible(r) == NonBlank(r.fixed_id) /\ ExpectedFixedKey(r) \notin KeysOf(call.before)

ExpectedSubsKey(r) ==
    <<"S", "U", "B", "_">> \o safe_key_part(r.card_name) \o <<"_">>
        \o safe_key_part(r.merchant) \o <<"_">> \o YearMonthText

SubsEligible(r) ==
    /\ NonBlank(r.merchant)
    /\ ToNumeric(r.amount) # Num(0)
    /\ ExpectedSubsKey(r) \notin KeysOf(call.before)

\* the rows a returned call appended to its ledger argument
Emitted == SubSeq(call.out, Len(call.before) + 1, Len(call.out))

Returned(op) == call.op = op /\ ~call.raised

RentRule == FixedRule(Txt_f1, Txt_Rent, Num(800000), Num(31), <<>>)

\* C2: a second application of the materializer for the same month, on the ledger
\* the first application produced (kept in memory or saved and re-read any
\* number of times), adds 0 rows and leaves the ledger the same size.
C2_SecondApplicationAddsNothing ==
    (call.nth >= 2 /\ ~call.raised) =>
        /\ call.added = 0
        /\ Len(call.out) = Len(call.before)
        /\ Len(ledger_df) = Len(call.before)

C2_Witness ==
    call.op = "fixed" /\ call.nth = 2 /\ ~call.raised /\ call.prev = 2 /\ call.reloaded = 2

\* C3: a returned apply_fixed_to_ledger_for_month call emits exactly one row for
\* every rule with a non-blank fixed_id whose key FIX_<fixed_id>_<yyyymm> is not
\* in the snapshot, in rule order, and none for any other rule; each row has that
\* key, type Expense, the fixed category, the rule's amount and a memo containing
\* the rule name; the count is the number of emitted rows and the snapshot rows
\* are returned unchanged; the Rent rule for 2025-02 yields 2025-02-28.
C3_ApplyFixedEmits ==
    Returned("fixed") =>
        LET rules == SelectSeq(fixed_df, FixedEligible)
        IN  /\ SubSeq(call.out, 1, Len(call.before)) = call.before
            /\ call.added = Len(Emitted)
            /\ Len(Emitted) = Len(rules)
            /\ \A j \in 1..Len(rules) :
                  /\ Emitted[j].fixed_key = ExpectedFixedKey(rules[j])
                  /\ Emitted[j].type = Expense
                  /\ Emitted[j].category = FIXED_CATEGORY
                  /\ Num(Emitted[j].amount) = rules[j].amount
                  /\ Contains(Emitted[j].memo, rules[j].name)
                  /\ Emitted[j].date.y = selected_year /\ Emitted[j].date.m = selected_month
            /\ (fixed_df = <<RentRule>> /\ call.before = <<>>
                   /\ selected_year = 2025 /\ selected_month = 2) =>
                  /\ Len(Emitted) = 1
                  /\ Emitted[1].date = [y |-> 2025, m |-> 2, d |-> 28]
                  /\ Emitted[1].amount = 800000
                  /\ Emitted[1].fixed_key
                        = <<"F", "I", "X", "_", "f", "1", "_", "2", "0", "2", "5", "0", "2">>

C3_Witness ==
    /\ Returned("fixed") /\ call.nth = 1 /\ Len(fixed_df) = 2 /\ call.added = 1
    /\ Len(call.before) = 2 /\ Emitted[1].amount = 0

\* C4: every materialized entry is dated on day max(1, min(d, days_in_month)) of
\* the target month, d being the rule's day; a day beyond the month's length is
\* clamped to the last day (31 -> 28 in February 2025, 29 in February 2024) and
\* the rule still yields its entry.
C4_DayClamped ==
    (call.op # "none" /\ ~call.raised) =>
        LET rules == IF call.op = "fixed" THEN SelectSeq(fixed_df, FixedEligible)
                     ELSE SelectSeq(subs_df, SubsEligible)
            last_day == DaysInMonth(selected_year, selected_month)
        IN  /\ Len(Emitted) = Len(rules)
            /\ \A j \in 1..Len(rules) :
                  LET d == ToNumeric(rules[j].day).n
                      e == Emitted[j].date
                  IN  /\ e.y = selected_year /\ e.m = selected_month
                      /\ e.d \in 1..last_day
                      /\ (d \in 1..last_day) => e.d = d
                      /\ (d > last_day) => e.d = last_day
                      /\ (d < 1) => e.d = 1
                      /\ (d = 31 /\ selected_month = 2 /\ selected_year = 2025) => e.d = 28
                      /\ (d = 31 /\ selected_month = 2 /\ selected_year = 2024) => e.d = 29

C4_Witness ==
    /\ Returned("fixed") /\ call.added = 1 /\ fixed_df[1].day = Num(31)
    /\ selected_year = 2024 /\ selected_month = 2 /\ Emitted[1].date.d = 29

\* C5: a returned apply_subs_to_ledger_for_month call emits exactly one row, with
\* key SUB_<sanitize(card)>_<sanitize(merchant)>_<yyyymm>, for every rule that
\* has a non-blank merchant, a non-zero amount and whose key is not in the
\* snapshot, in rule order; every other rule produces no row.
C5_ApplySubsEmits ==
    Returned("subs") =>
        LET rules == SelectSeq(subs_df, SubsEligible)
        IN  /\ SubSeq(call.out, 1, Len(call.before)) = call.before
            /\ call.added = Len(rules)
            /\ Len(Emitted) = Len(rules)
            /\ \A j \in 1..Len(rules) :
                  /\ Emitted[j].fixed_key = ExpectedSubsKey(rules[j])
                  /\ Num(Emitted[j].amount) = rules[j].amount
                  /\ Contains(Emitted[j].memo, Strip(rules[j].merchant))

C5_Witness ==
    /\ Returned("subs") /\ call.nth = 1 /\ Len(subs_df) = 2 /\ call.added = 1
    /\ Len(call.before) = 1 /\ call.before[1].fixed_key # <<>>
    /\ \E i \in 1..2 : ToNumeric(subs_df[i].amount) = Num(0)

\* C8: within one materializer call a malformed rule is skipped or coerced and
\* never aborts the call; every other valid rule not yet materialized is still
\* materialized.
C8_MalformedRuleNeverAborts ==
    call.op # "none" =>
        /\ ~call.raised
        /\ call.op = "fixed" =>
              \A i \in 1..Len(fixed_df) :
                  (FixedEligible(fixed_df[i]) /\ fixed_df[i] \in TypedFixedRules) =>
                      ExpectedFixedKey(fixed_df[i]) \in KeysOf(call.out)
        /\ call.op = "subs" =>
              \A i \in 1..Len(subs_df) :
                  (SubsEligible(subs_df[i]) /\ subs_df[i] \in TypedSubsRules) =>
                      ExpectedSubsKey(subs_df[i]) \in KeysOf(call.out)

(***************************************************************************)
(* Claims on the store adapter (SpecStore)                                 *)
(***************************************************************************)
AllDone == \A s \in Sessions : pc[s] = "done"

BothKind(kind) == \A s \in Sessions : job[s].kind = kind

\* the line ws_append_row of session s appends
LineOf(s) == AppendLine(JobFrame(s)[1], SIMPLE_COLS)

\* C9: once two ws_write_df calls on the same table have both completed, the table
\* holds exactly the header and rows of one of the two writes, never a mixture.
C9_LastWriteWins ==
    (BothKind("write") /\ AllDone) =>
        \E s \in Sessions : ws_values = WriteValues(JobFrame(s), SIMPLE_COLS)

\* C10: for any interleaving of two ws_append_row calls on the same table, both
\* appended rows are present afterwards, every previously stored line is still
\* present and unchanged, and the first line is the schema header.
C10_AppendsNeverConflict ==
    (BothKind("append") /\ AllDone) =>
        /\ \A s \in Sessions : \E i \in 2..Len(ws_values) : ws_values[i] = LineOf(s)
        /\ \A i \in 2..Len(ws_initial) : ws_values[i] = ws_initial[i]
        /\ Len(ws_values) = (IF Len(ws_initial) = 0 THEN 1 ELSE Len(ws_initial)) + 2
        /\ ws_values[1] = SIMPLE_COLS

\* both sessions found the table empty and wrote the header, the second header
\* after the first row had been appended
C10_Witness ==
    /\ BothKind("append") /\ AllDone
    /\ \A s \in Sessions : existing[s] = <<>>
    /\ ws_initial = <<>>
    /\ Len(ws_values) = 3

C10_Witness_Stored ==
    BothKind("append") /\ AllDone /\ Len(ws_initial) = 3 /\ Len(ws_values) = 5

(***************************************************************************)
(* Claims on the page handlers (SpecApp, SpecFixedTab)                     *)
(***************************************************************************)
\* the rows of the stored ledger that carry an idempotency key
KeyedRows ==
    SelectSeq(ws_read_df(ledger_values, LEDGER_COLS), LAMBDA r : r.fixed_key # <<>>)

\* C1: in every state of the stored ledger reached by manual entries, edit-saves,
\* deletes, apply-fixed and apply-subscription presses, no two rows with a
\* non-empty fixed_key have the same fixed_key.
C1_FixedKeysDistinct ==
    \A i, j \in 1..Len(KeyedRows) : i # j => KeyedRows[i].fixed_key # KeyedRows[j].fixed_key

\* every cache entry present before the step is present, with the same value, after
CacheKept ==
    /\ \A k \in {"fixed", "subs"} : cache[k].hit => cache'[k] = cache[k]
    /\ \A t \in AppTargets : cache.budget[t].hit => cache'.budget[t] = cache.budget[t]

\* a step that is the press of an apply button counting 0: every step but the
\* expiry of the cache is a handler, and a handler leaves its own record in last
ZeroCountPress ==
    /\ ~CacheExpire
    /\ last'.handler \in {"apply_fixed_btn_main", "apply_subs_btn_main"}
    /\ last'.added = 0

\* C7: a press of an apply button whose materializer call counts 0 issues no
\* ws_write_df, does not clear the cache, leaves the stored ledger exactly as it
\* was, and ends in an informational message.
C7_ZeroCountNoWrite ==
    [][ZeroCountPress =>
          /\ ledger_values' = ledger_values
          /\ last'.store_op = "none"
          /\ ~last'.cleared
          /\ last'.msg = "info"
          /\ CacheKept]_vars

\* an apply-subscription press that counts 0 because the stored rules are already
\* materialized in the stored ledger
C7_Witness ==
    /\ last.handler = "apply_subs_btn_main" /\ last.added = 0 /\ last.msg = "info"
    /\ Len(load_card_subs(subs_values)) > 0
    /\ Len(KeyedRows) > 0

StoredFixedIds == {r.fixed_id : r \in StoredFixedRules}

C11_WriteAllOrNothing ==
    job[Caller].kind = "write" =>
        /\ pc[Caller] = "raised" => ws_values = ws_initial
        /\ pc[Caller] = "done" => ws_values = WriteValues(job[Caller].df, job[Caller].columns)

\* C12: a store call whose remote call raises a transient error on every attempt
\* has issued that remote call exactly 6 times when it raises the error
C12_SixAttempts ==
    \A s \in Sessions :
        pc[s] = "raised" /\ ret[s].error = "transient" => ret[s].attempts = 6

\* the cell of column c in row i of the frame a ws_write_df call was given, as
\* the text the claim expects back: the cell, or empty text for an absent column
WrittenCell(df, i, c) == IF c \in DOMAIN df[i] THEN df[i][c] ELSE <<>>

\* C14: ws_read_df after a ws_write_df under the same schema, both returning,
\* gives exactly the schema's columns and exactly the written rows as text, in the
\* written order, whatever the worksheet held before; the frame built from the
\* stored grid never raises
C14_WriteThenRead ==
    job[Caller].kind = "read_back" =>
        /\ ret[Caller].error # "ValueError"
        /\ pc[Caller] = "done" =>
              /\ Len(ret[Caller].df) = Len(job[Caller].df)
              /\ \A i \in 1..Len(ret[Caller].df) :
                    /\ DOMAIN ret[Caller].df[i] = ColSet(job[Caller].columns)
                    /\ \A c \in ColSet(job[Caller].columns) :
                          ret[Caller].df[i][c] = WrittenCell(job[Caller].df, i, c)

\* two rows, one with an empty cell, read back from a worksheet that held a wider
\* grid with more lines before the write
C14_Witness ==
    /\ job[Caller].kind = "read_back"
    /\ pc[Caller] = "done"
    /\ Len(ret[Caller].df) = 2
    /\ ret[Caller].df[1].benefits = <<>>
    /\ Len(ws_initial) = 3
    /\ Len(ws_initial[1]) = 3

\* C15: ws_read_df on a worksheet that does not exist creates it; after the call
\* the worksheet exists, its first line is the schema's column list, it has no
\* data rows, and the call returned the empty frame
C15_ReadCreatesHeader ==
    job[Caller].kind = "read" /\ ret[Caller].created /\ pc[Caller] = "done" =>
        /\ ws_exists
        /\ ws_values = <<job[Caller].columns>>
        /\ ret[Caller].df = <<>>

\* the cell the claim expects for column c of stored line i under a first line
\* that is not blank: the stored cell of that column, or empty text
ExpectedCell(grid, i, c) ==
    IF \E j \in 1..Len(grid[1]) : grid[1][j] = c
    THEN grid[i + 1][CHOOSE j \in 1..Len(grid[1]) : grid[1][j] = c]
    ELSE <<>>

\* C16: for any stored first line (a subset, superset or reordering of the schema,
\* or a blank line) ws_read_df returns, with one row per stored data line in
\* stored order and exactly the schema's columns: the value of a known column is
\* kept, a missing column is empty, an unknown column is dropped
C16_ReadAnyHeader ==
    /\ job[Caller].kind = "read"
    /\ ws_initial # <<>>
    /\ pc[Caller] \in {"done", "raised"}
    /\ ret[Caller].error # "transient"
    => /\ pc[Caller] = "done"
       /\ Len(ret[Caller].df) = Len(ws_initial) - 1
       /\ \A i \in 1..Len(ret[Caller].df) :
             /\ DOMAIN ret[Caller].df[i] = ColSet(job[Caller].columns)
             /\ ~BlankHeader(ws_initial[1]) =>
                   \A c \in ColSet(job[Caller].columns) :
                       ret[Caller].df[i][c] = ExpectedCell(ws_initial, i, c)

(***************************************************************************)
(* Claims checked on SpecPage                                              *)
(***************************************************************************)
\* C13: every write made through the page empties the cache before the next read,
\* so what the cached readers load_fixed, load_card_subs and load_budget_month
\* return in that process is never older than the last write: every entry the
\* cache holds is what its reader returns on the tables as they are stored now
C13_CacheFresh ==
    /\ cache.fixed.hit =>
          /\ ~load_fixed(fixed_values).raised
          /\ cache.fixed.df = load_fixed(fixed_values).df
    /\ cache.subs.hit => cache.subs.df = load_card_subs(subs_values)
    /\ \A t \in AppTargets :
          cache.budget[t].hit =>
              cache.budget[t].df = load_budget_month(budget_values, budget_categories,
                                                     t[1], t[2])

\* the budget of the first category was saved as 50,000 over a cached frame that
\* said otherwise, a subscription is stored, and the cache holds both as stored
C13_Witness ==
    /\ last.handler = "save_budget_btn"
    /\ cache.budget[Today].hit
    /\ cache.budget[Today].df[1].budget = 50000
    /\ cache.subs.hit
    /\ Len(cache.subs.df) > 0

\* C17: every typed loader returns on a table that has rows: load_fixed after
\* fixed rules were saved, load_simple_money_log after a row was appended to the
\* events or the zeropay table; neither raises
C17_LoadersReturn ==
    /\ Len(fixed_values) > 1 => ~load_fixed(fixed_values).raised
    /\ \A w \in {"events", "zeropay"} :
          Len(simple_values[w]) > 1 => ~load_simple_money_log(simple_values[w]).raised

(***************************************************************************)
(* Claims checked on SpecBudget                                            *)
(***************************************************************************)
\* the data lines of a grid
DataLines(grid) == IF grid = <<>> THEN <<>> ELSE Tail(grid)

\* a stored line of budgets_monthly is of (year, month): its first two cells are
\* those numbers as text
LineOfMonth(line, year, month) == line[1] = IntToText(year) /\ line[2] = IntToText(month)

\* the lines a supplied frame is expected to be stored as: its rows with a
\* configured category (padding aside), the budget as an integer
SuppliedLines(rows, year, month) ==
    LET kept == SelectSeq(rows, LAMBDA r : \E k \in 1..10 : Strip(r.category) = NatToText(k))
    IN  [i \in 1..Len(kept) |->
            <<IntToText(year), IntToText(month), Strip(kept[i].category),
              IF kept[i].budget.t = "num" THEN IntToText(kept[i].budget.n)
              ELSE kept[i].budget.s>>]

\* C18: save_budget_month(rows, year, month) is an upsert at (year, month): after
\* it the rows stored under any other (year, month) are present exactly as they
\* were, and the rows stored under (year, month) are exactly the supplied rows
\* that have a configured category
C18_SaveBudgetUpserts ==
    bcall.op = "save" =>
        /\ budget_values[1] = BUDGET_COLS
        /\ SelectSeq(DataLines(budget_values),
                     LAMBDA l : ~LineOfMonth(l, bcall.year, bcall.month))
           = SelectSeq(DataLines(bcall.before),
                       LAMBDA l : ~LineOfMonth(l, bcall.year, bcall.month))
        /\ SelectSeq(DataLines(budget_values),
                     LAMBDA l : LineOfMonth(l, bcall.year, bcall.month))
           = SuppliedLines(bcall.rows, bcall.year, bcall.month)

\* a frame with a padded, an unknown and a fixed category saved for 2025-02 over
\* a table holding rows of that month, of 2025-03 and of 2024-02
C18_Witness ==
    /\ bcall.op = "save"
    /\ bcall.month = 2
    /\ Len(bcall.rows) = 3
    /\ Len(bcall.before) = 5
    /\ Len(budget_values) = 5

\* C19: for a (year, month) that has no stored row, the table empty or missing
\* included, load_budget_month returns one row per configured budget category,
\* with budget 0, in the canonical category order
C19_LoadBudgetDefaults ==
    /\ bcall.op = "load"
    /\ \A i \in 1..Len(DataLines(bcall.before)) :
          ~LineOfMonth(DataLines(bcall.before)[i], bcall.year, bcall.month)
    => bcall.result = [k \in 1..8 |-> [category |-> NatToText(k), budget |-> 0]]

\* 2025-02 loaded from a table that holds rows of 2025-03 only
C19_Witness ==
    /\ bcall.op = "load"
    /\ bcall.month = 2
    /\ Len(bcall.before) = 3
    /\ Len(bcall.result) = 8

RECURSIVE SumAmounts(_)
SumAmounts(rows) == IF rows = <<>> THEN 0 ELSE Head(rows).amount + SumAmounts(Tail(rows))

\* the sum of the amounts of the ledger rows of type Expense, category c and a
\* date in (year, month); of the current user's rows only when mine is TRUE
SpentIn(ledger, c, year, month, mine) ==
    SumAmounts(SelectSeq(ledger,
        LAMBDA r : /\ r.type = Expense
                   /\ r.category = c
                   /\ r.date # NaT /\ r.date.y = year /\ r.date.m = month
                   /\ mine => r.user = Me))

\* every line of the status shown is a budget category with spent as SpentIn,
\* diff = budget - spent and status "under" exactly when diff >= 0
StatusAgrees(mine) ==
    \A i \in 1..Len(bcall.result) :
        LET r == bcall.result[i]
        IN  /\ \E k \in 1..8 : r.category = NatToText(k)
            /\ r.spent = SpentIn(load_ledger(ledger_values), r.category, bcall.year,
                                 bcall.month, mine)
            /\ r.diff = r.budget - r.spent
            /\ r.status \in {"under", "over"}
            /\ r.status = "under" <=> r.diff >= 0

\* C20 as stated: in the budget view of a month, spent(c) is the sum of the
\* amounts of all ledger rows of type Expense, category c and a date in the month,
\* diff(c) = budget(c) - spent(c), status is "under" iff diff >= 0 and "over"
\* otherwise; fixed and lump-sum categories, Income rows and rows of other months
\* never contribute
C20_BudgetStatus == bcall.op = "status" => StatusAgrees(FALSE)

\* C20 amended: the same, spent(c) being summed over all such rows when the
\* "only mine" box of the main tab is unchecked and over the current user's rows
\* when it is checked
C20_BudgetStatusShown == bcall.op = "status" => StatusAgrees(bcall.only_mine)

\* the box checked on a ledger with another user's expense: the first category
\* spends its budget exactly (under, diff 0), the third is over
C20_Witness ==
    /\ bcall.op = "status"
    /\ bcall.only_mine
    /\ Len(ledger_values) = 8
    /\ bcall.result[1].spent = 1200
    /\ bcall.result[1].diff = 0
    /\ bcall.result[1].status = "under"
    /\ bcall.result[3].status = "over"

\* the budgets the table holds for category c under (year, month), as integers
StoredBudgetsOf(grid, year, month, c) ==
    { ToIntOr(Str(DataLines(grid)[i][4]), 0) :
        i \in { j \in 1..Len(DataLines(grid)) :
                  /\ LineOfMonth(DataLines(grid)[j], year, month)
                  /\ Strip(DataLines(grid)[j][3]) = c } }

\* C21: whatever budgets_monthly holds, load_budget_month(cats, year, month)
\* returns exactly one row per category of cats, in the order of cats: rows of
\* other categories are dropped, a category with a stored row has its stored
\* budget and a category without one has budget 0
C21_LoadBudgetOnePerCategory ==
    bcall.op = "load" =>
        /\ Len(bcall.result) = Len(budget_categories)
        /\ \A k \in 1..Len(bcall.result) :
              LET stored == StoredBudgetsOf(bcall.before, bcall.year, bcall.month,
                                           budget_categories[k])
              IN  /\ bcall.result[k].category = budget_categories[k]
                  /\ bcall.result[k].budget \in (IF stored = {} THEN {0} ELSE stored)

(***************************************************************************)
(* Claims checked on SpecBudgetSessions                                    *)
(***************************************************************************)
\* C22: after any sequence and any interleaving across sessions of
\* save_budget_month calls on a budgets_monthly table that started empty, the
\* stored table holds at most one row for each (year, month, category)
C22_OneRowPerBudgetKey ==
    \A i, j \in 1..Len(DataLines(ws_values)) :
        (/\ DataLines(ws_values)[i][1] = DataLines(ws_values)[j][1]
         /\ DataLines(ws_values)[i][2] = DataLines(ws_values)[j][2]
         /\ DataLines(ws_values)[i][3] = DataLines(ws_values)[j][3]) => i = j

(***************************************************************************)
(* Claims checked on SpecLedger                                            *)
(***************************************************************************)
\* C23: every ledger row stored after any sequence of manual entries,
\* edit-saves and materializations has an amount that is a non-negative
\* integer, whatever amount text the user typed
C23_AmountsNonNegative ==
    \A i \in 1..Len(DataLines(ledger_values)) :
        LET cell == DataLines(ledger_values)[i][ColPos(LEDGER_COLS, "amount")]
        IN  IsDigits(cell)

(***************************************************************************)
(* Claims checked on SpecMoney                                             *)
(***************************************************************************)
\* a text of digits in groups separated by commas, blanks around it allowed
DigitGroups(x) ==
    LET s == Strip(x)
    IN  /\ s # <<>>
        /\ \A i \in 1..Len(s) : IsDigit(s[i]) \/ s[i] = ","
        /\ IsDigit(s[1]) /\ IsDigit(s[Len(s)])
        /\ \A i \in 1..(Len(s) - 1) : ~(s[i] = "," /\ s[i + 1] = ",")

\* the number the digits of x spell, its first digit the most significant
RECURSIVE DigitsValue(_, _)
DigitsValue(x, acc) ==
    IF x = <<>> THEN acc
    ELSE DigitsValue(Tail(x), IF IsDigit(Head(x)) THEN 10 * acc + DigitVal(Head(x)) ELSE acc)

HasDigit(x) == \E i \in 1..Len(x) : IsDigit(x[i])

\* C24: to_int_money returns the default 0 for None, for the empty text and for
\* any text no integer can be parsed from, returns the integer for plain and for
\* thousands-separated digit text, and always returns an integer; a manual entry
\* submitted with an amount that is not a number is stored, with amount 0
C24_MalformedMoneyIsZero ==
    /\ bcall.op = "to_int_money" =>
          /\ bcall.result \in Int
          /\ (bcall.rows = None \/ ~HasDigit(bcall.rows)) => bcall.result = 0
          /\ (bcall.rows # None /\ DigitGroups(bcall.rows)) =>
                bcall.result = DigitsValue(bcall.rows, 0)
    /\ (last.handler = "ledger_add" /\ ~HasDigit(last.edited[1].amt_str)) =>
          /\ Len(ledger_values) = uuid_next + 1
          /\ ledger_values[Len(ledger_values)][ColPos(LEDGER_COLS, "id")] = uuid4(uuid_next - 1)
          /\ ledger_values[Len(ledger_values)][ColPos(LEDGER_COLS, "amount")] = <<"0">>

\* to_int_money has returned 1200 for "1,200" and the entry form submitted
\* with "abc" has stored a row with amount 0
C24_Witness ==
    /\ bcall.op = "to_int_money"
    /\ bcall.rows = <<"1", ",", "2", "0", "0">>
    /\ bcall.result = 1200
    /\ last.handler = "ledger_add"
    /\ last.edited[1].amt_str = Txt_abc
    /\ ledger_values[Len(ledger_values)][ColPos(LEDGER_COLS, "amount")] = <<"0">>

\* the stored row of id in a grid of the ledger worksheet, cells as stored
StoredRow(grid, id) ==
    LET df == ws_read_df(grid, LEDGER_COLS)
    IN  df[CHOOSE i \in 1..Len(df) : df[i].id = id]

StoredIds(grid) == IdsOf(ws_read_df(grid, LEDGER_COLS))

\* C25: an edit-save replaces rows by id and nothing else: a stored row whose id
\* is in the edited view and not marked for deletion keeps its id, fixed_key and
\* user, only its date, type, category, amount and memo taking the edited
\* values; a stored row whose id is not in the edited view is left unchanged;
\* the ids stored afterwards are the ids stored before minus the marked ones
C25_EditSaveReplacesById ==
    (last.handler = "ledger_save" /\ last.msg = "success") =>
        /\ StoredIds(ledger_values) = StoredIds(last.before) \ DeleteIds(last.edited)
        /\ \A id \in StoredIds(ledger_values) :
              LET old == StoredRow(last.before, id)
                  new == StoredRow(ledger_values, id)
              IN  IF id \in IdsOf(last.edited)
                  THEN LET e == LineWithId(last.edited, id)
                       IN  /\ new.fixed_key = old.fixed_key
                           /\ new.user = old.user
                           /\ new.date = DateToText(e.date)
                           /\ new.type = e.type
                           /\ new.category = e.category
                           /\ new.amount = IntToText(to_int_money(e.amount_str, 0))
                           /\ new.memo = e.memo
                  ELSE new = old

\* the editor of 2025-02 saved with its first line typed over and the box of
\* a materialized row checked, while the ledger holds a row of another user in
\* 2025-03: that row and the typed-over row are stored, the checked one is not
C25_Witness ==
    /\ last.handler = "ledger_save"
    /\ last.msg = "success"
    /\ Len(last.edited) = 2
    /\ last.edited[1].memo = Txt_abc
    /\ ~last.edited[1].delete
    /\ last.edited[2].delete
    /\ StoredRow(last.before, last.edited[2].id).fixed_key # <<>>
    /\ <<"e">> \in StoredIds(ledger_values)
    /\ last.edited[1].id \in StoredIds(ledger_values)
    /\ StoredRow(ledger_values, <<"e">>).user = Other

\* C26: in any sequence of operations of a single session with no concurrent
\* writer, a ledger row once stored stays in the store until an explicit delete
\* of its id (its box checked in the editor when the save or the delete button
\* is pressed): no other operation removes it
C26_RowsStayUntilDeleted ==
    [][\A id \in StoredIds(ledger_values) :
          \/ id \in StoredIds(ledger_values')
          \/ /\ last'.handler \in {"ledger_save", "ledger_delete"}
             /\ id \in DeleteIds(last'.edited)]_vars

(***************************************************************************)
(* Claims checked on SpecAppend                                            *)
(***************************************************************************)
\* the remote calls of ws_append_row after the worksheet is found
AppendCalls == {"get_all_values", "header", "append_row"}

\* session s makes one of the remote calls of its ws_append_row in this step
AppendStep(s) == job[s].kind = "append" /\ pc[s] \in AppendCalls /\ pc'[s] # pc[s]

\* every line stored in grid is stored in after, unchanged, in the same position
LinesKept(grid, after) ==
    /\ Len(after) >= Len(grid)
    /\ \A i \in 1..Len(grid) : after[i] = grid[i]

\* the line ws_append_row serializes row_dict to: one cell per column of the
\* schema in its order, the text of the field, "" for a missing or None field
SchemaLine(row_dict, columns) ==
    [j \in 1..Len(columns) |->
        IF columns[j] \notin DOMAIN row_dict THEN <<>>
        ELSE IF row_dict[columns[j]] = None THEN <<>>
        ELSE row_dict[columns[j]]]

\* what every remote call of a ws_append_row call does to the table: the read
\* changes nothing, the header is written only on a table the call read as
\* empty and changes no stored line, and append_row adds one line, the
\* serialized row_dict, after the stored lines
AppendFrame(s) ==
    /\ LinesKept(ws_values, ws_values')
    /\ pc[s] = "get_all_values" => ws_values' = ws_values
    /\ pc[s] = "header" =>
          /\ existing[s] = <<>>
          /\ ws_values' = IF ws_values = <<>> THEN <<job[s].columns>> ELSE ws_values
    /\ pc[s] = "append_row" =>
          ws_values' = ws_values \o <<SchemaLine(job[s].df[1], job[s].columns)>>

\* C27 as stated: append_row(name, row, schema) adds exactly one row after the
\* existing rows, serialized in schema column order (missing or None fields as
\* empty), and neither reads nor rewrites any existing row of the table: no
\* stored row is ever held by the call, and every row stored before the call
\* is present, unchanged and in the same position after it
C27_AppendNeitherReadsNorRewrites ==
    [][\A s \in Sessions :
          AppendStep(s) => AppendFrame(s) /\ DataLines(existing'[s]) = <<>>]_vars

\* C27, amended: append_row(name, row, schema) adds exactly one row after the
\* existing rows, serialized in schema column order (missing or None fields as
\* empty), and rewrites no existing row of the table; it reads the stored
\* values once, before writing, only to write the header line first when the
\* table is empty: every row stored before the call is present, unchanged and
\* in the same position after it
C27_AppendRewritesNoRow ==
    [][\A s \in Sessions :
          AppendStep(s) =>
              /\ AppendFrame(s)
              /\ pc[s] = "get_all_values" => existing'[s] = ws_values
              /\ pc[s] # "get_all_values" => existing'[s] = existing[s]]_vars

\* both calls have returned on a worksheet that held two rows: session 1 read
\* them, its row_dict had no memo or memo None, and the table is the stored
\* lines followed by the two appended lines
C27_Witness ==
    /\ \A s \in Sessions : pc[s] = "done" /\ job[s].kind = "append"
    /\ Len(DataLines(ws_initial)) = 2
    /\ DataLines(existing[1]) = DataLines(ws_initial)
    /\ SimpleRow("a", 1) \notin {job[1].df[1]}
    /\ Len(ws_values) = Len(ws_initial) + 2
    /\ LinesKept(ws_initial, ws_values)
    /\ \E k \in {Len(ws_values) - 1, Len(ws_values)} :
          /\ ws_values[k][1] = <<"a", "1">>
          /\ ws_values[k][5] = <<>>

(***************************************************************************)
(* Further claims checked on SpecTable                                     *)
(***************************************************************************)
\* C28: fatal failures propagate immediately with no retry and are never taken
\* for "table not found": get_or_create_worksheet calls add_worksheet only after
\* its lookup reported that the worksheet is missing, a worksheet comes to exist
\* only by that call, and a lookup that fails otherwise is raised after the one
\* attempt with no worksheet created, then or later in the call
C28_CreateOnlyWhenNotFound ==
    [][/\ (pc'[Caller] = "add_worksheet" /\ pc[Caller] # "add_worksheet") =>
              pc[Caller] = "lookup" /\ ~ws_exists
       /\ (ws_exists' /\ ~ws_exists) => pc[Caller] = "add_worksheet"
       /\ (pc[Caller] \in {"lookup", "lookup_again"} /\ pc'[Caller] = "raised") =>
              /\ ws_exists' = ws_exists
              /\ ws_values' = ws_values
              /\ ret'[Caller].attempts = 1
              /\ ~ret'[Caller].created
       /\ pc[Caller] = "raised" => pc'[Caller] = "raised" /\ ws_exists' = ws_exists]_vars

\* the lookup of a call on a missing worksheet raised an error of the service:
\* the call has ended after one attempt and the worksheet is still missing
C28_Witness ==
    /\ pc[Caller] = "raised"
    /\ ret[Caller].error = "transient"
    /\ ret[Caller].attempts = 1
    /\ ~ret[Caller].created
    /\ ~ws_exists
    /\ ws_values = <<>>

(***************************************************************************)
(* Further claims checked on SpecPage                                      *)
(***************************************************************************)
\* the stored rows of a grid of the ledger worksheet that carry a fixed_key
KeyedIn(grid) == SelectSeq(ws_read_df(grid, LEDGER_COLS), LAMBDA r : r.fixed_key # <<>>)

\* the keyed rows stored in grid whose id carries no key in the grid before
NewKeyedRows(before, grid) ==
    SelectSeq(KeyedIn(grid), LAMBDA r : r.id \notin IdsOf(KeyedIn(before)))

\* key is a key of the month (year, month): it ends with _yyyymm
KeyOfMonth(key, year, month) ==
    LET suffix == <<"_">> \o yyyymm(year, month)
    IN  /\ Len(key) > Len(suffix)
        /\ SubSeq(key, Len(key) - Len(suffix) + 1, Len(key)) = suffix

\* C29: ledger rows with a non-empty fixed_key are created only by an explicit
\* apply-fixed or apply-subscription press for the selected month: whenever a
\* step of the page (any button, with the page load and the rerun it starts)
\* leaves a keyed row stored whose id carried no key before, the step is one
\* of the two apply buttons, the rows are as many as it reports added, and
\* their keys are keys of one month of the selector
C29_KeyedRowsOnlyByApply ==
    [][NewKeyedRows(ledger_values, ledger_values') # <<>> =>
          /\ last'.handler \in {"apply_fixed_btn_main", "apply_subs_btn_main"}
          /\ last'.added = Len(NewKeyedRows(ledger_values, ledger_values'))
          /\ \E t \in AppTargets :
                \A i \in 1..Len(NewKeyedRows(ledger_values, ledger_values')) :
                    KeyOfMonth(NewKeyedRows(ledger_values, ledger_values')[i].fixed_key,
                               t[1], t[2])]_vars

\* the ledger holds a row of the entry form and a row materialized from a
\* fixed rule, after presses of other buttons: the budget save was the last
C29_Witness ==
    /\ last.handler = "save_budget_btn"
    /\ Len(KeyedIn(ledger_values)) >= 1
    /\ Len(ws_read_df(ledger_values, LEDGER_COLS)) > Len(KeyedIn(ledger_values))

(***************************************************************************)
(* Claims checked on SpecStartup                                           *)
(***************************************************************************)
\* the positions of a run at which a call on a worksheet is issued or has
\* returned: lookup, creation, read, write, append
TableOperations ==
    {"lookup", "lookup_again", "add_worksheet", "clear", "update", "get_all_values",
     "header", "append_row", "done"}

\* the spreadsheet identifier or the service-account credentials are missing
\* from the configuration of the run of the caller
ConfigMissing ==
    job[Caller].spreadsheet_id = "absent" \/ job[Caller].service_account # "given"

\* C30: if the spreadsheet identifier or the service-account credentials are
\* missing, the run halts with an error before any table operation: no step of
\* the run issues a read, write, append or worksheet creation, the worksheet
\* and its values stay as they were, and an authenticated run ends raised
C30_MissingConfigHalts ==
    [][ConfigMissing =>
          /\ pc'[Caller] \notin TableOperations
          /\ ws_exists' = ws_exists
          /\ ws_values' = ws_values
          /\ pc'[Caller] \in {"secrets", "get_spreadsheet", "raised", "stopped"}
          /\ pc'[Caller] = "stopped" => ~job[Caller].authenticated
          /\ pc'[Caller] = "raised" => ret'[Caller].error \in {"KeyError", "ValueError"}]_vars

\* an authenticated run with the spreadsheet identifier given and no
\* service-account section has raised KeyError on a spreadsheet whose worksheet
\* is missing, which an append would have created
C30_Witness ==
    /\ pc[Caller] = "raised"
    /\ ret[Caller].error = "KeyError"
    /\ job[Caller].authenticated
    /\ job[Caller].spreadsheet_id = "given"
    /\ job[Caller].service_account = "absent"
    /\ job[Caller].kind = "append"
    /\ ~ws_exists
    /\ ws_values = ws_initial

(***************************************************************************)
(* Further claims checked on SpecMat                                       *)
(***************************************************************************)
\* the (card_name, merchant) pair of a subscription rule, as the materializer
\* reads it
PairOf(sb) == <<Strip(sb.card_name), Strip(sb.merchant)>>

\* C31: for the target month of a subscription call, two rules of the table
\* with different (card_name, merchant) pairs are assigned different
\* idempotency keys
C31_DifferentPairsDifferentKeys ==
    (call.op = "subs" /\ ~call.raised) =>
        \A i, j \in 1..Len(subs_df) :
            PairOf(subs_df[i]) # PairOf(subs_df[j]) =>
                SubsKey(PairOf(subs_df[i])[1], PairOf(subs_df[i])[2],
                        selected_year, selected_month)
                # SubsKey(PairOf(subs_df[j])[1], PairOf(subs_df[j])[2],
                          selected_year, selected_month)

(***************************************************************************)
(* Claims checked on SpecOverlap                                           *)
(***************************************************************************)
\* the rows of a frame, as a set
RowsOf(df) == {df[i] : i \in 1..Len(df)}

\* the table before the write of the writer, and the table that write stores
TableBefore == ws_read_df(ws_initial, BUDGET_COLS)

TableAfter == ws_read_df(WriteValues(job[Writer].df, BUDGET_COLS), BUDGET_COLS)

\* C32: a ws_read_df that runs while another session's ws_write_df is under
\* way returns the complete table before the write or the complete table
\* after it, never an empty or partial one; and a save_budget_month that
\* overlaps the write, once it has returned, has stored every row of the
\* other months that was in the table both before and after the write
C32_ReadSeesWholeTable ==
    /\ (job[Reader].kind = "read" /\ pc[Reader] = "done") =>
          ret[Reader].df \in {TableBefore, TableAfter}
    /\ (job[Reader].n = 1 /\ pc[Reader] = "done") =>
          \A r \in RowsOf(TableBefore) \cap RowsOf(TableAfter) :
              (r.year # IntToText(job[Reader].year) \/ r.month # IntToText(job[Reader].month))
                  => r \in RowsOf(job[Reader].df)

(***************************************************************************)
(* Further claims checked on SpecLedger                                    *)
(***************************************************************************)
\* C33: a ledger delete removes from the store exactly the rows whose ids were
\* checked and leaves every other row unchanged; with no box checked it issues
\* no write and does not invalidate the cache
C33_DeleteRemovesChecked ==
    [][last'.handler = "ledger_delete" =>
          IF DeleteIds(last'.edited) = {}
          THEN /\ ledger_values' = ledger_values
               /\ last'.store_op = "none"
               /\ ~last'.cleared
               /\ CacheKept
          ELSE /\ last'.store_op = "write"
               /\ StoredIds(ledger_values') = StoredIds(ledger_values) \ DeleteIds(last'.edited)
               /\ \A id \in StoredIds(ledger_values') :
                     StoredRow(ledger_values', id) = StoredRow(ledger_values, id)]_vars

\* the delete button pressed on the editor of 2025-02 with its first line typed
\* over and the box of its second line checked: the row of the other user in
\* 2025-03 and the first row are stored, the first as it was, the checked one
\* is not
C33_Witness ==
    /\ last.handler = "ledger_delete"
    /\ last.store_op = "write"
    /\ Len(last.edited) = 2
    /\ last.edited[1].memo = Txt_abc
    /\ last.edited[2].delete
    /\ StoredIds(ledger_values) = {<<"e">>, last.edited[1].id}
    /\ StoredRow(ledger_values, last.edited[1].id).memo # Txt_abc

(***************************************************************************)
(* Claims checked on SpecSubsTab                                           *)
(***************************************************************************)
\* the stored lines of card_subscriptions of a card, and of the other cards, as
\* stored and in stored order
SubsOfCard(grid, card) ==
    SelectSeq(ws_read_df(grid, CARD_SUBS_COLS), LAMBDA r : r.card_name = card)

SubsOfOthers(grid, card) ==
    SelectSeq(ws_read_df(grid, CARD_SUBS_COLS), LAMBDA r : r.card_name # card)

\* the lines of the editor with a non-blank merchant, as they are to be stored
\* for card
EditedSubs(edited, card) ==
    LET kept == SelectSeq(edited, LAMBDA e : Strip(e.merchant) # <<>>)
    IN  [i \in 1..Len(kept) |->
            [card_name |-> card, merchant |-> kept[i].merchant,
             amount |-> IntToText(to_int_money(kept[i].amount_str, 0)),
             day |-> IntToText(Clip31(ToIntOr(kept[i].day, 1))),
             memo |-> kept[i].memo]]

\* C34: saving the subscriptions of one card replaces exactly the stored rows of
\* that card with the edited rows that have a non-blank merchant; the stored
\* rows of every other card are present and unchanged after the save
C34_SaveSubsReplacesOneCard ==
    [][last'.handler = "save_subs_no_active" =>
          /\ SubsOfOthers(subs_values', last'.selected_card)
                = SubsOfOthers(subs_values, last'.selected_card)
          /\ SubsOfCard(subs_values', last'.selected_card)
                = EditedSubs(last'.edited, last'.selected_card)]_vars

\* the subscriptions of card c saved with the first line typed over and a line
\* with a blank merchant added, while card d has a stored rule: the rule of d is
\* stored and c has one rule, of amount 1200
C34_Witness ==
    /\ last.handler = "save_subs_no_active"
    /\ last.selected_card = Txt_c
    /\ Len(last.edited) = 2
    /\ Strip(last.edited[2].merchant) = <<>>
    /\ Len(SubsOfOthers(subs_values, Txt_c)) = 1
    /\ Len(SubsOfCard(subs_values, Txt_c)) = 1
    /\ SubsOfCard(subs_values, Txt_c)[1].amount = <<"1", "2", "0", "0">>

(***************************************************************************)
(* Claims checked on SpecCreate                                            *)
(***************************************************************************)
\* the positions of a store call before get_or_create_worksheet has returned
InGetOrCreate == {"lookup", "add_worksheet", "lookup_again"}

\* the sessions whose add_worksheet created a worksheet
Creators == {s \in Sessions : ret[s].created}

\* C35: when two sessions call get_or_create_worksheet for a title that does
\* not exist yet, in every interleaving neither call raises, at most one of
\* them creates a worksheet, and once both have returned the worksheet exists
\* and exactly one call created it
C35_OneWorksheetBothReturn ==
    /\ \A s \in Sessions : pc[s] # "raised"
    /\ Cardinality(Creators) <= 1
    /\ (\A s \in Sessions : pc[s] \notin InGetOrCreate) =>
          ws_exists /\ Cardinality(Creators) = 1

\* both sessions found the worksheet missing, the first created it, the
\* add_worksheet of the second raised and its second lookup returned the
\* worksheet: both calls have ended
C35_Witness ==
    /\ \A s \in Sessions : pc[s] = "done"
    /\ Creators = {1}
    /\ ws_exists
    /\ Len(ws_values) > 1 + Len(job[1].df)

(***************************************************************************)
(* Claims checked on SpecLogin                                             *)
(***************************************************************************)
\* the credentials the login form of session s was last submitted with match
\* the configuration: the password stored for the username in the user table
\* or, when no users are configured, the single password, spaces around either
\* side not counted
CredentialsMatch(s) ==
    IF job[s].users = {}
    THEN Strip(job[s].pw) = Strip(IF job[s].app_password = None
                                  THEN FallbackPassword ELSE job[s].app_password)
    ELSE \E e \in job[s].users : e[1] = job[s].username /\ Strip(e[2]) = Strip(job[s].pw)

\* C36: no table operation (lookup, creation, read, write) is at any time
\* issued by a session that is not authenticated; a session becomes
\* authenticated only by a login whose credentials match the user table (or
\* the single password when no users are configured); a session that is not
\* authenticated, before its first login as after a logout, has an empty
\* current user, and so until its next matching login
C36_OnlyAuthenticatedOperate ==
    [][\A s \in Sessions :
          /\ pc'[s] \in TableOperations => job'[s].authenticated
          /\ (ws_values' # ws_values \/ ws_exists' # ws_exists) =>
                \E w \in Sessions : pc'[w] # pc[w] /\ job[w].authenticated
          /\ (~job[s].authenticated /\ job'[s].authenticated) => CredentialsMatch(s)'
          /\ (job[s].authenticated /\ ~job'[s].authenticated) =>
                job'[s].current_user = <<>> /\ pc'[s] = "login"
          /\ ~job'[s].authenticated => job'[s].current_user = <<>>
          /\ (~job[s].authenticated /\ ~CredentialsMatch(s)') => ~job'[s].authenticated]_vars

\* session 1 logged in as u with spaces typed around the password, wrote its
\* frame and logged out; its run stopped at the login page; session 2, which
\* typed a wrong password, is still at the login page and nothing of it was
\* read
C36_Witness ==
    /\ pc[1] = "stopped"
    /\ ~job[1].authenticated
    /\ job[1].current_user = <<>>
    /\ job[1].username = Txt_u
    /\ job[1].pw = <<" ", "p", " ">>
    /\ ws_exists
    /\ Len(ws_values) = 2
    /\ pc[2] = "stopped"
    /\ job[2].pw = <<"q">>
    /\ ~job[2].authenticated

(***************************************************************************)
(* Claims checked on SpecUser                                              *)
(***************************************************************************)
\* the current user of the session: its name without the spaces around it, "me"
\* for a blank name
UserOfSession ==
    IF Strip(job[1].current_user) = <<>> THEN <<"m", "e">> ELSE Strip(job[1].current_user)

\* the user fields of the rows of frame after whose id no row of frame before has
CreatedUsers(before, after) ==
    {after[i].user : i \in {k \in 1..Len(after) : after[k].id \notin IdsOf(before)}}

\* the user fields a step has created rows with: in the ledger worksheet, in the
\* ledger frame the materializer returned, in the two simple logs
StepCreatedUsers ==
    CreatedUsers(ws_read_df(ledger_values, LEDGER_COLS), ws_read_df(ledger_values', LEDGER_COLS))
    \cup CreatedUsers(ledger_df, ledger_df')
    \cup UNION {CreatedUsers(ws_read_df(simple_values[w], SIMPLE_COLS),
                             ws_read_df(simple_values'[w], SIMPLE_COLS)) :
                 w \in {"events", "zeropay"}}

\* C37: every row created by the ledger entry form, by the form of a simple log
\* or by the materializer carries in user the current user of the session that
\* created it, which is never empty (a blank session user is recorded as "me"),
\* and a save of the ledger editor leaves the user of every row it keeps as it
\* was stored
C37_CreatedRowsCarryUser ==
    [][/\ StepCreatedUsers \subseteq {UserOfSession}
       /\ <<>> \notin StepCreatedUsers
       /\ last'.handler = "ledger_save" =>
             \A id \in StoredIds(ledger_values') \cap StoredIds(ledger_values) :
                 StoredRow(ledger_values', id).user = StoredRow(ledger_values, id).user]_vars

\* a session logged in under another name than "me" has entered a ledger row
\* and a log row and has materialized the fixed rule, all recorded under its
\* name, and has saved the editor with the memo of the row of "me" typed over:
\* that row is stored with the new memo under "me"
C37_Witness ==
    /\ job[1].current_user = Other
    /\ \E i \in 1..Len(ledger_df) :
          ledger_df[i].fixed_key # <<>> /\ ledger_df[i].user = Other
    /\ \E id \in StoredIds(ledger_values) :
          id # <<"a">> /\ StoredRow(ledger_values, id).user = Other
    /\ \E i \in 1..Len(ws_read_df(simple_values.events, SIMPLE_COLS)) :
          ws_read_df(simple_values.events, SIMPLE_COLS)[i].user = Other
    /\ <<"a">> \in StoredIds(ledger_values)
    /\ StoredRow(ledger_values, <<"a">>).memo = Txt_abc
    /\ StoredRow(ledger_values, <<"a">>).user = Me

====
